---- MODULE Spec2Model ----
(***************************************************************************)
(* Model of the geometric core of bevy_WeaverGen_V3:                        *)
(*   poly/utils.rs, poly/voronoi.rs, poly/point_gen.rs, poly/subdivision.rs *)
(*                                                                         *)
(* Numbers.  The program computes in f32/f64.  Here every stored           *)
(* coordinate is an integer number of lattice units; wherever the program  *)
(* stores the result of a division in a coordinate (a circumcenter, a      *)
(* centroid, a cluster average, an intersection point) the model rounds    *)
(* the exact quotient to the nearest lattice point (DivRound), which plays *)
(* the part of the rounding of the float store.  Scalars that are only      *)
(* compared (areas, distances, line parameters) are compared exactly, by   *)
(* cross-multiplication.  A Vec3 (x, 0, z) and a Vec2 (x, y) are both the  *)
(* pair <<x, y>>.                                                          *)
(***************************************************************************)
EXTENDS Integers, Sequences, FiniteSets, TLC

VARIABLES
    pc,         \* position of the routine under check
    vIn,        \* vpoly: [gens, boundary, thr] the arguments of the call
    vOut,       \* vpoly: the value returned (and what it was built from)
    rIn,        \* prelax: [regular, fixed, steps, width, height] as passed
    rReg,       \* prelax: the local regular_points
    rFixed,     \* prelax: the local fixed_points
    rStep,      \* prelax: iterations of the loop done so far
    rDPoints,   \* prelax: the local d_points of the iteration done last
    rOut,       \* prelax: the value returned
    bIn,        \* bisect_poly: [polygon, start_idx, ratio, angle, separation]
    bOut,       \* bisect_poly: the value returned
    sIn,        \* subdivide_to_plots: the arguments of the top-level call
    sStack,     \* subdivide_to_plots: the frames of the calls in progress,
                \*   the innermost first
    sDraws,     \* subdivide_to_plots: values drawn from rng so far
    sOut,       \* subdivide_to_plots: the value the top-level call returned
    sLast,      \* the call that returned last: its polygon and depth, what
                \*   it returned, sDraws when it was entered and when it left
    sDeepest,   \* [call, cut]: the greatest depth a call was made with, and
                \*   the greatest depth of a call that cut its polygon
    sCut,       \* the cut made last: the depth and the polygon of the
                \*   call, the alley_chance its draw was compared with,
                \*   whether the draw succeeded, and the start index, ratio,
                \*   angle offset and separation passed to bisect_poly
    fIn,        \* a function called on its own: its name and arguments
    fOut,       \* a function called on its own: the value returned
    GenerationMode, \* the resource GenerationMode: "Auto" or "Manual"
    EditMode,   \* the resource EditMode: "Boundary", "Roads", "Generators"
                \*   or "Circumcenters"
    Seed,       \* the resource Seed
    Params,     \* the resource Params
    SkeletonData,   \* the resource SkeletonData
    handled,    \* handle_regeneration: the event handled last, the modes it
                \*   was handled in, whether it changed the seed, and Seed
                \*   and SkeletonData as they were before
    town,       \* generate_town: its seed, the regions of its blocks, the
                \*   index of the block it is at, the buildings of the
                \*   blocks before it, the number of regions it pushed from
                \*   the road and the road path it read
    events,     \* the number of RegenerateEvents handled so far
    SelectedPoint,  \* the resource SelectedPoint: <<>> for None, <<i>> for
                \*   Some of the position i, counted from 1
    DragState,  \* the resource DragState: [dragging_point_index, drag_offset],
                \*   the index held as in SelectedPoint
    LeftButton, \* whether the left mouse button is held down
    inputs,     \* the number of mouse and key inputs handled so far
    regen_events \* the RegenerateEvents written and not yet read

vpolyVars == <<vIn, vOut>>

relaxVars == <<rIn, rReg, rFixed, rStep, rDPoints, rOut>>

bisectVars == <<bIn, bOut>>

subVars == <<sIn, sStack, sDraws, sOut, sLast, sDeepest, sCut>>

callVars == <<fIn, fOut>>

\* the variables of the routines other than the four above
townVars == <<GenerationMode, EditMode, Seed, Params, SkeletonData, handled, town, events>>

\* the variables of handle_mouse_interaction
inputVars == <<SelectedPoint, DragState, LeftButton, inputs, regen_events>>

restVars == <<callVars, townVars, inputVars>>

vars == <<pc, vpolyVars, relaxVars, bisectVars, subVars, restVars>>

\* a routine that is not the one under check holds nothing
VpolyIdle == vIn = <<>> /\ vOut = <<>>

RelaxIdle ==
    /\ rIn = <<>>
    /\ rReg = <<>>
    /\ rFixed = <<>>
    /\ rStep = 0
    /\ rDPoints = <<>>
    /\ rOut = <<>>

BisectIdle == bIn = <<>> /\ bOut = <<>>

SubIdle ==
    /\ sIn = <<>>
    /\ sStack = <<>>
    /\ sDraws = 0
    /\ sOut = <<>>
    /\ sLast = <<>>
    /\ sDeepest = <<>>
    /\ sCut = <<>>

CallIdle == fIn = <<>> /\ fOut = <<>>

\* the resources as the plugin inserts them, before any data
TownIdle ==
    /\ GenerationMode = "Auto"
    /\ EditMode = "Boundary"
    /\ Seed = 0
    /\ Params = <<>>
    /\ SkeletonData = <<>>
    /\ handled = <<>>
    /\ town = <<>>
    /\ events = 0

\* mod.rs lines 223-225: the resources at their defaults
InputIdle ==
    /\ SelectedPoint = <<>>
    /\ DragState = [dragging_point_index |-> <<>>, drag_offset |-> <<0, 0>>]
    /\ LeftButton = FALSE
    /\ inputs = 0
    /\ regen_events = <<>>

RestIdle == CallIdle /\ TownIdle /\ InputIdle

----------------------------------------------------------------------------
(* Arithmetic helpers *)

Abs(n) == IF n < 0 THEN -n ELSE n

Sq(n) == n * n

\* nearest lattice value of n/d, d > 0 (the rounding of a float store)
DivRound(n, d) == (2 * n + d) \div (2 * d)

Range(s) == {s[i] : i \in 1..Len(s)}

\* Op(v), with v evaluated once however often Op uses it (where a LET
\* definition is evaluated again at each use)
With(v, Op(_)) == CHOOSE r \in {Op(x) : x \in {v}} : TRUE

RECURSIVE SumSeq(_)
SumSeq(s) == IF s = <<>> THEN 0 ELSE Head(s) + SumSeq(Tail(s))

Cross(u, v) == u[1] * v[2] - u[2] * v[1]

Sub(p, q) == <<p[1] - q[1], p[2] - q[2]>>

Dot(u, v) == u[1] * v[1] + u[2] * v[2]

RECURSIVE GCD(_, _)
GCD(a, b) == IF b = 0 THEN Abs(a) ELSE GCD(b, a % Abs(b))

\* the nearest integer to n / sqrt(q), for q > 0 (a product with a
\* normalized vector, stored in a coordinate)
RoundDivRoot(n, q) ==
    LET a == Abs(n)
        m == CHOOSE k \in 0..a :
                 /\ k = 0 \/ Sq(2 * k - 1) * q <= 4 * Sq(a)
                 /\ Sq(2 * k + 1) * q > 4 * Sq(a)
    IN  IF n < 0 THEN -m ELSE m

\* squared distance of two lattice points (Vec3::distance, squared)
Dist2(p, q) == Sq(p[1] - q[1]) + Sq(p[2] - q[2])

----------------------------------------------------------------------------
(* config.rs *)

CANVAS_WIDTH == 500

CANVAS_HEIGHT == 500

MAX_RECURSION_DEPTH == 10

BOUNDARY_GENERATOR_SPACING == 12

BOUNDARY_GENERATOR_INNER_OFFSET == 1

BOUNDARY_GENERATOR_OUTER_OFFSET == 2

ROAD_GENERATOR_SPACING == 7

\* ROAD_GENERATOR_OFFSET is 0.1: one lattice unit where a unit of length is
\* Tenths lattice units, as it is for road paths
Tenths == 10

ROAD_GENERATOR_OFFSET == 1

CORNER_CONSTRAINT_DISTANCE == 2

----------------------------------------------------------------------------
(* poly/utils.rs *)

\* polygon_area: twice the signed shoelace area (the division by 2 is kept
\* out so that the value stays an integer); 0 below 3 vertices
RECURSIVE ShoelaceFrom(_, _)
ShoelaceFrom(poly, i) ==
    IF i > Len(poly) THEN 0
    ELSE LET j == (i % Len(poly)) + 1
         IN  poly[i][1] * poly[j][2] - poly[j][1] * poly[i][2]
             + ShoelaceFrom(poly, i + 1)

\* (mutant of polygon_area2: the magnitude of the area)
polygon_areaUnsigned(poly) == IF Len(poly) < 3 THEN 0 ELSE Abs(ShoelaceFrom(poly, 1))

polygon_area2(poly) == IF Len(poly) < 3 THEN 0 ELSE ShoelaceFrom(poly, 1)

\* point_in_polygon: the ray-casting loop; edge (j, i) toggles `inside`
PipToggles(pt, poly, i) ==
    LET j  == IF i = 1 THEN Len(poly) ELSE i - 1
        xi == poly[i][1]
        yi == poly[i][2]
        xj == poly[j][1]
        yj == poly[j][2]
    IN  /\ (yi > pt[2]) # (yj > pt[2])
        \* pt.x < (xj - xi) * (pt.y - yi) / (yj - yi) + xi, cleared of the
        \* division (yj # yi here)
        /\ IF yj - yi > 0
           THEN (pt[1] - xi) * (yj - yi) < (xj - xi) * (pt[2] - yi)
           ELSE (pt[1] - xi) * (yj - yi) > (xj - xi) * (pt[2] - yi)

point_in_polygon(pt, poly) ==
    IF Len(poly) < 3 THEN FALSE
    ELSE Cardinality({i \in 1..Len(poly) : PipToggles(pt, poly, i)}) % 2 = 1

\* polygon_centroid; `area2` is twice the area the caller passes
RECURSIVE CentroidSum(_, _, _)
CentroidSum(poly, coord, i) ==
    IF i > Len(poly) THEN 0
    ELSE LET j == (i % Len(poly)) + 1
             p == poly[i][1] * poly[j][2] - poly[j][1] * poly[i][2]
         IN  (poly[i][coord] + poly[j][coord]) * p + CentroidSum(poly, coord, i + 1)

\* n / d rounded, for a divisor of either sign
DivRoundSigned(n, d) == IF d > 0 THEN DivRound(n, d) ELSE DivRound(-n, -d)

polygon_centroid(poly, area2) ==
    IF Len(poly) < 3 \/ area2 = 0 THEN <<0, 0>>
    ELSE <<DivRoundSigned(CentroidSum(poly, 1, 1), 3 * area2),
           DivRoundSigned(CentroidSum(poly, 2, 1), 3 * area2)>>

\* calculate_circumcenter, returned at lattice resolution (both callers
\* cast the f64 pair to f32 at once)
TriCentroid(p1, p2, p3) ==
    <<DivRound(p1[1] + p2[1] + p3[1], 3), DivRound(p1[2] + p2[2] + p3[2], 3)>>

calculate_circumcenter(p1, p2, p3) ==
    LET ax == p1[1]
        ay == p1[2]
        bx == p2[1]
        by == p2[2]
        cx == p3[1]
        cy == p3[2]
        d  == 2 * (ax * (by - cy) + bx * (cy - ay) + cx * (ay - by))
        un == (ax * ax + ay * ay) * (by - cy)
              + (bx * bx + by * by) * (cy - ay)
              + (cx * cx + cy * cy) * (ay - by)
        vn == (ax * ax + ay * ay) * (cx - bx)
              + (bx * bx + by * by) * (ax - cx)
              + (cx * cx + cy * cy) * (bx - ax)
        canvas_bound == CANVAS_WIDTH * 5
        cen == TriCentroid(p1, p2, p3)
    IN  IF d = 0 THEN cen
        ELSE LET ux == DivRoundSigned(un, d)
                 uy == DivRoundSigned(vn, d)
             IN  IF \/ Abs(ux) > canvas_bound
                    \/ Abs(uy) > canvas_bound
                    \/ Abs(ux - cen[1]) > canvas_bound
                    \/ Abs(uy - cen[2]) > canvas_bound
                    \/ Dist2(<<ux, uy>>, cen) > Sq(canvas_bound)
                 THEN cen
                 ELSE <<ux, uy>>

----------------------------------------------------------------------------
(* spade::DelaunayTriangulation, as poly/voronoi.rs and poly/point_gen.rs   *)
(* use it.  insert() of a position already present keeps one vertex, so    *)
(* the triangulation is over the set of distinct positions.  A face is a   *)
(* counter-clockwise triple of positions.                                  *)

Orient(a, b, c) == Cross(Sub(b, a), Sub(c, a))

\* > 0 iff d lies strictly inside the circumcircle of the ccw triangle a b c
InCircle(a, b, c, d) ==
    LET pa == Sub(a, d)
        pb == Sub(b, d)
        pc3 == Sub(c, d)
    IN  (Sq(pa[1]) + Sq(pa[2])) * Cross(pb, pc3)
        + (Sq(pb[1]) + Sq(pb[2])) * Cross(pc3, pa)
        + (Sq(pc3[1]) + Sq(pc3[2])) * Cross(pa, pb)

LexLess(p, q) == p[1] < q[1] \/ (p[1] = q[1] /\ p[2] < q[2])

\* the inner faces: the ccw triples, named from their least vertex, whose
\* circumcircle holds no other vertex
DelaunayFaces(P) ==
    {f \in P \X P \X P :
        /\ LexLess(f[1], f[2])
        /\ LexLess(f[1], f[3])
        /\ Orient(f[1], f[2], f[3]) > 0
        /\ \A d \in P \ {f[1], f[2], f[3]} : InCircle(f[1], f[2], f[3], d) <= 0}

\* face.adjacent_edges(): the three directed edges of the face, ccw
adjacent_edges(f) == {<<f[1], f[2]>>, <<f[2], f[3]>>, <<f[3], f[1]>>}

\* edge.rev()
EdgeRev(e) == <<e[2], e[1]>>

\* the triangulations insert() can have built: the sets of such faces that
\* tile the convex hull (no two faces on the same side of an edge, and
\* across every edge either another face or nothing at all).  There is one
\* unless four vertices lie on an empty circle; which one is built is the
\* library's tie-breaking.
Triangulations(P) ==
    LET F == DelaunayFaces(P)
    IN  {S \in SUBSET F :
            /\ F # {} => S # {}
            /\ \A f, g \in S : f # g => adjacent_edges(f) \cap adjacent_edges(g) = {}
            /\ \A f \in S : \A e \in adjacent_edges(f) :
                   \/ \A q \in P : Orient(e[1], e[2], q) >= 0
                   \/ \E g \in S : EdgeRev(e) \in adjacent_edges(g)}

\* every sequence that lists the elements of S once each
RECURSIVE Orderings(_)
Orderings(S) ==
    IF S = {} THEN {<<>>}
    ELSE UNION {{<<x>> \o p : p \in Orderings(S \ {x})} : x \in S}

\* the elements of S in one order
RECURSIVE SeqOfSet(_)
SeqOfSet(S) ==
    IF S = {} THEN <<>>
    ELSE LET x == CHOOSE y \in S : TRUE IN <<x>> \o SeqOfSet(S \ {x})

\* inner_faces(): the faces in one enumeration order (the library fixes the
\* order; the program does not choose it)
FaceOrders(P) == UNION {Orderings(S) : S \in Triangulations(P)}

\* face.vertices() holds the position p
Incident(f, p) == f[1] = p \/ f[2] = p \/ f[3] = p

\* edge.face(): the face to the LEFT of the directed edge: the index of the
\* inner face that has it among its ccw edges, 0 for the outer face
EdgeFace(faces, e) ==
    IF \E k \in 1..Len(faces) : e \in adjacent_edges(faces[k])
    THEN CHOOSE k \in 1..Len(faces) : e \in adjacent_edges(faces[k])
    ELSE 0

\* face.is_outer()
is_outer(fh) == fh = 0

----------------------------------------------------------------------------
(* poly/voronoi.rs: vpoly *)

\* lines 34-54: the circumcenter of one face, or the face's centroid when
\* the circumcenter leaves the canvas by more than bound_margin = 2
FaceCircumcenter(f) ==
    LET c == calculate_circumcenter(f[1], f[2], f[3])
    IN  IF Abs(c[1]) <= CANVAS_WIDTH * 2 /\ Abs(c[2]) <= CANVAS_HEIGHT * 2
        THEN c
        ELSE TriCentroid(f[1], f[2], f[3])

Circumcenters(faces) == [k \in 1..Len(faces) |-> FaceCircumcenter(faces[k])]

\* line 69, the distance test: circumcenters[i].distance(circumcenters[j])
\* < merge_threshold
Closer(p, q, thr) == thr > 0 /\ Dist2(p, q) < Sq(thr)

\* (mutant of JoinsCluster: the `!used[j]` test left out)
JoinsClusterEvenIfUsed(circ, thr, used, i, j) ==
    Closer(circ[i], circ[j], thr)

\* line 69, the whole condition under which j joins the cluster seeded by i
JoinsCluster(circ, thr, used, i, j) ==
    ~used[j] /\ Closer(circ[i], circ[j], thr)

\* lines 64-73: the cluster seeded by i, in the order the indices are pushed
RECURSIVE ClusterFrom(_, _, _, _, _)
ClusterFrom(circ, thr, used, i, j) ==
    IF j > Len(circ) THEN <<>>
    ELSE (IF JoinsCluster(circ, thr, used, i, j) THEN <<j>> ELSE <<>>)
         \o ClusterFrom(circ, thr, used, i, j + 1)

\* lines 76-78: the average position of a cluster
ClusterAverage(circ, cluster) ==
    <<DivRound(SumSeq([k \in 1..Len(cluster) |-> circ[cluster[k]][1]]), Len(cluster)),
      DivRound(SumSeq([k \in 1..Len(cluster) |-> circ[cluster[k]][2]]), Len(cluster))>>

\* lines 57-87: the merge pass.  st = [merged, index_mapping, used]; the
\* mapping holds 0 for None and new_index + 1 for Some(new_index)
RECURSIVE MergeLoop(_, _, _, _)
MergeLoop(circ, thr, i, st) ==
    IF i > Len(circ) THEN st
    ELSE IF st.used[i] THEN MergeLoop(circ, thr, i + 1, st)
    ELSE LET cluster == <<i>> \o ClusterFrom(circ, thr, st.used, i, i + 1)
             members == Range(cluster)
             new_index == Len(st.merged) + 1
         IN  MergeLoop(circ, thr, i + 1,
                 [merged |-> Append(st.merged, ClusterAverage(circ, cluster)),
                  index_mapping |-> [k \in 1..Len(circ) |->
                      IF k \in members THEN new_index ELSE st.index_mapping[k]],
                  used |-> [k \in 1..Len(circ) |-> st.used[k] \/ k \in members]])

MergePass(circ, thr) ==
    MergeLoop(circ, thr, 1,
        [merged |-> <<>>,
         index_mapping |-> [k \in 1..Len(circ) |-> 0],
         used |-> [k \in 1..Len(circ) |-> FALSE]])

\* (mutant of PushUnique: the `contains` test left out)
PushAlways(list, new_idx) == Append(list, new_idx)

\* lines 106-110: push the remapped index unless the list holds it already
PushUnique(list, new_idx) ==
    IF new_idx \in Range(list) THEN list ELSE Append(list, new_idx)

\* lines 96-113: voronoi_circumcenters[g], built face by face
RECURSIVE CellIndicesFrom(_, _, _, _, _)
CellIndicesFrom(faces, mapping, gpos, k, acc) ==
    IF k > Len(faces) THEN acc
    ELSE CellIndicesFrom(faces, mapping, gpos, k + 1,
             IF Incident(faces[k], gpos) /\ mapping[k] # 0
             THEN PushUnique(acc, mapping[k])
             ELSE acc)

\* lines 127-141: (the code's) boundary detection for the generator at gpos
is_boundary(faces, gpos) ==
    \E k \in 1..Len(faces) :
        /\ Incident(faces[k], gpos)
        /\ \E e \in adjacent_edges(faces[k]) : is_outer(EdgeFace(faces, e))

\* lines 146-150
has_extreme_circumcenters(pts, cell) ==
    \E k \in 1..Len(cell) :
        Sq(pts[cell[k]][1]) + Sq(pts[cell[k]][2]) > Sq(CANVAS_WIDTH * 3)

\* atan2(v.y, v.x) < atan2(w.y, w.x), for lattice vectors: the angle lies in
\* (-pi, 0) when y < 0, is 0 when y = 0 and x >= 0, lies in (0, pi) when
\* y > 0, and is pi when y = 0 and x < 0
AngleBand(v) ==
    IF v[2] < 0 THEN 0
    ELSE IF v[2] = 0 /\ v[1] >= 0 THEN 1
    ELSE IF v[2] > 0 THEN 2
    ELSE 3

AngleLess(v, w) ==
    \/ AngleBand(v) < AngleBand(w)
    \/ /\ AngleBand(v) = AngleBand(w)
       /\ AngleBand(v) \in {0, 2}
       /\ Cross(v, w) > 0

\* lines 157-163: the comparator of the sort, on point indices
CellAngleLess(pts, gpos, a, b) ==
    AngleLess(Sub(pts[a], gpos), Sub(pts[b], gpos))

\* slice::sort_by is a stable sort: x goes before the first element that
\* compares greater than it
RECURSIVE InsertByAngle(_, _, _, _)
InsertByAngle(pts, gpos, sorted, x) ==
    IF sorted = <<>> THEN <<x>>
    ELSE IF CellAngleLess(pts, gpos, x, Head(sorted)) THEN <<x>> \o sorted
    ELSE <<Head(sorted)>> \o InsertByAngle(pts, gpos, Tail(sorted), x)

RECURSIVE SortFrom(_, _, _, _, _)
SortFrom(pts, gpos, cell, k, acc) ==
    IF k > Len(cell) THEN acc
    ELSE SortFrom(pts, gpos, cell, k + 1, InsertByAngle(pts, gpos, acc, cell[k]))

\* (mutant of SortCell: the cell left in the order it was collected in)
SortCellSkipped(pts, gpos, cell) == cell

\* lines 156-163
SortCell(pts, gpos, cell) == SortFrom(pts, gpos, cell, 1, <<>>)

\* lines 117-151: the generator's cell is kept
KeepsCell(faces, pts, boundary, gpos, cell) ==
    /\ ~(Len(cell) < 3)
    /\ point_in_polygon(gpos, boundary)
    /\ ~is_boundary(faces, gpos)
    /\ ~has_extreme_circumcenters(pts, cell)

\* lines 116-166: the loop over the generators; acc = [cells, cellGen],
\* cellGen being the generator index each pushed cell came from (not part
\* of SkeletonData: kept for the statements about the cells)
RECURSIVE EmitCells(_, _, _, _, _, _, _)
EmitCells(gens, boundary, faces, mapping, pts, g, acc) ==
    IF g > Len(gens) THEN acc
    ELSE LET cell == CellIndicesFrom(faces, mapping, gens[g], 1, <<>>)
         IN  EmitCells(gens, boundary, faces, mapping, pts, g + 1,
                 IF KeepsCell(faces, pts, boundary, gens[g], cell)
                 THEN [cells |-> Append(acc.cells, SortCell(pts, gens[g], cell)),
                       cellGen |-> Append(acc.cellGen, g)]
                 ELSE acc)

\* vpoly, given the enumeration order of the triangulation's inner faces
vpoly(gens, boundary, thr, faces) ==
    LET circ == Circumcenters(faces)
        m    == MergePass(circ, thr)
        em   == EmitCells(gens, boundary, faces, m.index_mapping, m.merged, 1,
                          [cells |-> <<>>, cellGen |-> <<>>])
    IN  [generator_points |-> gens,
         points |-> m.merged,
         cells |-> em.cells,
         road_path |-> <<>>,
         boundary_polygon |-> boundary,
         \* what the result was built from
         cellGen |-> em.cellGen,
         faces |-> faces,
         circ |-> circ,
         index_mapping |-> m.index_mapping]

----------------------------------------------------------------------------
(* The calls of vpoly that are checked *)

\* most generators of one call
MaxGens == 5

\* most inner faces of the triangulation of one call
MaxFaces == 4

\* largest merge threshold of a call, in lattice units
MaxThr == 3

\* positions the generators are drawn from
Sites ==
    {<<0, 0>>, <<2, 3>>, <<3, 3>>, <<3, 6>>, <<4, 0>>, <<5, 3>>, <<6, 2>>}

\* where a whole call is moved to, to leave the canvas: 3 x CANVAS_WIDTH
\* from the origin is the extreme distance, this is beyond it
FarOff == <<4 * CANVAS_WIDTH, 0>>

\* boundary polygons: one around every site, one around
\* some of them, both in either winding, and one that is no polygon
Boundaries ==
    {<<<<-2, -2>>, <<8, -2>>, <<8, 8>>, <<-2, 8>>>>,
     <<<<-2, 8>>, <<8, 8>>, <<8, -2>>, <<-2, -2>>>>,
     <<<<1, 1>>, <<7, 1>>, <<7, 4>>, <<1, 4>>>>,
     <<<<0, 0>>, <<3, 3>>>>}

Add(p, q) == <<p[1] + q[1], p[2] + q[2]>>

Moved(s, off) == [i \in 1..Len(s) |-> Add(s[i], off)]

Reversed(s) == [i \in 1..Len(s) |-> s[Len(s) + 1 - i]]

\* the list s taken from its (k + 1)-th element on, cyclically
Rotated(s, k) == [i \in 1..Len(s) |-> s[((i + k - 1) % Len(s)) + 1]]

RECURSIVE SortedSeq(_)
SortedSeq(S) ==
    IF S = {} THEN <<>>
    ELSE LET m == CHOOSE x \in S : \A y \in S : x = y \/ LexLess(x, y)
         IN  <<m>> \o SortedSeq(S \ {m})

\* the generator lists: the sites of a set in either order, or with one
\* position given twice
GeneratorLists ==
    LET base == {SortedSeq(S) : S \in {T \in SUBSET Sites :
                     /\ Cardinality(T) >= 3
                     /\ Cardinality(T) <= MaxGens
                     /\ \A S \in Triangulations(T) : Cardinality(S) <= MaxFaces}}
    IN  base \cup {Reversed(s) : s \in base}
             \cup {Append(s, s[2]) : s \in {t \in base : Len(t) < MaxGens}}

\* the calls: every generator list with every boundary, and every generator
\* list moved off the canvas together with a boundary around it
VCalls ==
    {[gens |-> gl, boundary |-> b, thr |-> t] :
        gl \in GeneratorLists, b \in Boundaries, t \in 0..MaxThr}
    \cup
    {[gens |-> Moved(gl, FarOff),
      boundary |-> Moved(<<<<-2, -2>>, <<8, -2>>, <<8, 8>>, <<-2, 8>>>>, FarOff),
      thr |-> t] :
        gl \in GeneratorLists, t \in 0..MaxThr}

VInit ==
    /\ pc = "start"
    /\ vIn \in VCalls
    /\ vOut = [points |-> <<>>, cells |-> <<>>]
    /\ RelaxIdle
    /\ BisectIdle
    /\ SubIdle
    /\ RestIdle

\* one call of vpoly; the library enumerates the inner faces in some order
VpolyCall ==
    /\ pc = "start"
    /\ \E faces \in FaceOrders(Range(vIn.gens)) :
           vOut' = vpoly(vIn.gens, vIn.boundary, vIn.thr, faces)
    /\ pc' = "done"
    /\ UNCHANGED <<vIn, relaxVars, bisectVars, subVars, restVars>>

VNext == VpolyCall

SpecVoronoi == VInit /\ [][VNext]_vars

----------------------------------------------------------------------------
(* Statements about vpoly *)

VDone == pc = "done"

\* the faces of the returned diagram that hold generator g
IncidentFaces(g) ==
    {k \in 1..Len(vOut.faces) : Incident(vOut.faces[k], vIn.gens[g])}

\* the merged indices of generator g, as a set
MergedIndicesOf(g) == {vOut.index_mapping[k] : k \in IncidentFaces(g)}

\* C1: in every diagram vpoly returns, every index of every cell is below
\* points.len() (1..Len(points) here, indices being counted from 1), every
\* cell has at least 3 indices, and no index occurs twice in a cell.
C1_CellsWellFormed ==
    VDone =>
        \A c \in 1..Len(vOut.cells) :
            LET cell == vOut.cells[c]
            IN  /\ Len(cell) >= 3
                /\ \A k \in 1..Len(cell) : cell[k] \in 1..Len(vOut.points)
                /\ \A k, l \in 1..Len(cell) : k # l => cell[k] # cell[l]

\* a diagram with a cell whose generator has two faces merged into one point
C1_Witness ==
    /\ VDone
    /\ \E c \in 1..Len(vOut.cells) :
           Cardinality(MergedIndicesOf(vOut.cellGen[c]))
               < Cardinality(IncidentFaces(vOut.cellGen[c]))

\* "some triangle incident to g has an edge on the triangulation's outer
\* face": the face across one of its edges is the outer face
TouchesOuterFace(g) ==
    \E k \in IncidentFaces(g) :
        \E e \in adjacent_edges(vOut.faces[k]) :
            is_outer(EdgeFace(vOut.faces, EdgeRev(e)))

\* C7: vpoly emits a cell for generator g if and only if none of the discard
\* conditions holds: fewer than 3 distinct merged circumcenter indices; g
\* outside boundary_polygon; a triangle incident to g with an edge on the
\* outer face; a circumcenter of g farther than 3 x CANVAS_WIDTH from the
\* origin.  (So a generator on the convex hull never receives a cell.)
C7_CellIffNoDiscard ==
    VDone =>
        \A g \in 1..Len(vIn.gens) :
            (\E c \in 1..Len(vOut.cellGen) : vOut.cellGen[c] = g)
            <=> ~ \/ Cardinality(MergedIndicesOf(g)) < 3
                  \/ ~point_in_polygon(vIn.gens[g], vIn.boundary)
                  \/ TouchesOuterFace(g)
                  \/ \E i \in MergedIndicesOf(g) :
                         Sq(vOut.points[i][1]) + Sq(vOut.points[i][2])
                             > Sq(3 * CANVAS_WIDTH)

\* C8: in the diagram vpoly returns, no two distinct entries of points are
\* closer to each other than merge_threshold.
C8_NoTwoPointsCloser ==
    VDone =>
        \A i, j \in 1..Len(vOut.points) :
            i # j => ~Closer(vOut.points[i], vOut.points[j], vIn.thr)

\* The single-pass rule of C9: scanning the circumcenters in index order,
\* each joins the earliest-created cluster whose seed is within the
\* threshold, and otherwise starts a new cluster.
RECURSIVE SinglePass(_, _, _, _, _)
SinglePass(circ, thr, k, seeds, mapping) ==
    IF k > Len(circ) THEN [seeds |-> seeds, mapping |-> mapping]
    ELSE LET near == {c \in 1..Len(seeds) : Closer(circ[seeds[c]], circ[k], thr)}
         IN  IF near = {}
             THEN SinglePass(circ, thr, k + 1, Append(seeds, k),
                             Append(mapping, Len(seeds) + 1))
             ELSE SinglePass(circ, thr, k + 1, seeds,
                             Append(mapping, CHOOSE c \in near : \A d \in near : c <= d))

RECURSIVE SumOver(_, _, _)
SumOver(S, circ, coord) ==
    IF S = {} THEN 0
    ELSE LET k == CHOOSE k \in S : TRUE
         IN  circ[k][coord] + SumOver(S \ {k}, circ, coord)

\* p is the mean of the members' positions, to the rounding of the store
IsMeanOf(p, members, circ) ==
    \A coord \in 1..2 :
        2 * Abs(Cardinality(members) * p[coord] - SumOver(members, circ, coord))
            <= Cardinality(members)

\* C9: the merge pass of vpoly is the single-pass rule: the old-to-new index
\* map is total and equals the rule's, new indices are given in the order
\* the clusters are created, and each merged point is the mean of its
\* cluster's members.
C9_MergeIsSinglePass ==
    VDone =>
        LET ref == SinglePass(vOut.circ, vIn.thr, 1, <<>>, <<>>)
        IN  /\ \A k \in 1..Len(vOut.circ) :
                   vOut.index_mapping[k] \in 1..Len(vOut.points)
            /\ vOut.index_mapping = ref.mapping
            /\ Len(vOut.points) = Len(ref.seeds)
            /\ \A c \in 1..Len(vOut.points) :
                   IsMeanOf(vOut.points[c],
                            {k \in 1..Len(vOut.circ) : ref.mapping[k] = c},
                            vOut.circ)

\* a merge in which a circumcenter lies within the threshold of the seeds of
\* two clusters, and joined the earlier one
C9_Witness ==
    /\ VDone
    /\ \E k, i, j \in 1..Len(vOut.circ) :
           /\ i < j /\ j < k
           /\ vOut.index_mapping[i] # vOut.index_mapping[j]
           /\ Closer(vOut.circ[i], vOut.circ[k], vIn.thr)
           /\ Closer(vOut.circ[j], vOut.circ[k], vIn.thr)
           /\ \A l \in 1..(j - 1) :
                  vOut.index_mapping[l] # vOut.index_mapping[j]
           /\ \A l \in 1..(i - 1) :
                  vOut.index_mapping[l] # vOut.index_mapping[i]
           /\ vOut.index_mapping[k] = vOut.index_mapping[i]

\* C10: cells are emitted in generator-index order (the generators of the
\* cells are strictly increasing, so at most one cell per generator), and
\* within a cell the indices are ordered by increasing atan2 angle of the
\* referenced point around the generator.
C10_CellOrder ==
    VDone =>
        /\ \A c, d \in 1..Len(vOut.cellGen) :
               c < d => vOut.cellGen[c] < vOut.cellGen[d]
        /\ \A c \in 1..Len(vOut.cells) :
               \A k \in 1..(Len(vOut.cells[c]) - 1) :
                   ~AngleLess(
                       Sub(vOut.points[vOut.cells[c][k + 1]], vIn.gens[vOut.cellGen[c]]),
                       Sub(vOut.points[vOut.cells[c][k]], vIn.gens[vOut.cellGen[c]]))

\* a diagram of two cells or more, one of them in another order than the
\* faces were enumerated in
C10_Witness ==
    /\ VDone
    /\ Len(vOut.cells) >= 2
    /\ \E c \in 1..Len(vOut.cells) :
           vOut.cells[c] # CellIndicesFrom(vOut.faces, vOut.index_mapping,
                                           vIn.gens[vOut.cellGen[c]], 1, <<>>)

----------------------------------------------------------------------------
(* poly/point_gen.rs: prelax *)

\* lines 64-73: one circumcenter per inner face, in the order of inner_faces()
RelaxCircumcenters(faces) ==
    [k \in 1..Len(faces) |-> calculate_circumcenter(faces[k][1], faces[k][2], faces[k][3])]

\* lines 78-87: the circumcenters of the faces that hold `point`
RECURSIVE RelaxCellFrom(_, _, _, _)
RelaxCellFrom(faces, circ, point, k) ==
    IF k > Len(faces) THEN <<>>
    ELSE (IF Incident(faces[k], point) THEN <<circ[k]>> ELSE <<>>)
         \o RelaxCellFrom(faces, circ, point, k + 1)

\* lines 91-96: the comparator; center = sum / n, so a - center has the
\* direction of n * a - sum
RelaxAngleLess(n, sum, a, b) ==
    AngleLess(<<n * a[1] - sum[1], n * a[2] - sum[2]>>,
              <<n * b[1] - sum[1], n * b[2] - sum[2]>>)

RECURSIVE RelaxInsert(_, _, _, _)
RelaxInsert(n, sum, sorted, x) ==
    IF sorted = <<>> THEN <<x>>
    ELSE IF RelaxAngleLess(n, sum, x, Head(sorted)) THEN <<x>> \o sorted
    ELSE <<Head(sorted)>> \o RelaxInsert(n, sum, Tail(sorted), x)

RECURSIVE RelaxSortFrom(_, _, _, _, _)
RelaxSortFrom(n, sum, cell, k, acc) ==
    IF k > Len(cell) THEN acc
    ELSE RelaxSortFrom(n, sum, cell, k + 1, RelaxInsert(n, sum, acc, cell[k]))

RelaxSort(cell) ==
    LET sum == <<SumSeq([k \in 1..Len(cell) |-> cell[k][1]]),
                 SumSeq([k \in 1..Len(cell) |-> cell[k][2]])>>
    IN  RelaxSortFrom(Len(cell), sum, cell, 1, <<>>)

\* f32::clamp(v, -bound, bound)
Clamp(v, bound) == IF v < -bound THEN -bound ELSE IF v > bound THEN bound ELSE v

\* lines 89-107: where regular point `old` is after the step; a lattice cell
\* of non-zero area has |area| >= 1/2 > f32::EPSILON
RelaxMove(faces, circ, old, width, height) ==
    LET cell_points == RelaxCellFrom(faces, circ, old, 1)
    IN  IF Len(cell_points) >= 3
        THEN LET sorted == RelaxSort(cell_points)
                 area2 == polygon_area2(sorted)
             IN  IF area2 # 0
                 THEN LET centroid == polygon_centroid(sorted, area2)
                      IN  <<Clamp(centroid[1], width), Clamp(centroid[2], height)>>
                 ELSE old
        ELSE old

\* (mutant of CellFaces: the triangulation is built anew from the positions
\* as the loop has moved them so far)
CellFacesRebuilt(faces, circumcenters, regular_points, fixed) ==
    LET rebuilt == CHOOSE r \in FaceOrders(Range(regular_points \o fixed)) : TRUE
    IN  [faces |-> rebuilt, circumcenters |-> RelaxCircumcenters(rebuilt)]

\* lines 81-84: the faces the loop over the regular points looks a point up
\* in are those of `triangulation`, built at lines 57-61 before the loop, and
\* their centers are read from `circumcenters`, filled at lines 64-74
CellFaces(faces, circumcenters, regular_points, fixed) ==
    [faces |-> faces, circumcenters |-> circumcenters]

\* lines 77-108: the loop over the regular points from point i on;
\* regular_points is written one point at a time (line 105), the point
\* looked up is d_points[i], the position at the start of the iteration
RECURSIVE RelaxLoopFrom(_, _, _, _, _, _, _, _)
RelaxLoopFrom(regular_points, d_points, fixed, faces, circumcenters, i, width, height) ==
    IF i > Len(regular_points) THEN regular_points
    ELSE LET used == CellFaces(faces, circumcenters, regular_points, fixed)
         IN  RelaxLoopFrom(
                 [regular_points EXCEPT
                     ![i] = RelaxMove(used.faces, used.circumcenters, d_points[i],
                                      width, height)],
                 d_points, fixed, faces, circumcenters, i + 1, width, height)

\* lines 49-108: one iteration, `faces` being the inner faces of the
\* triangulation of the positions at the start of the iteration
RelaxIteration(regular, fixed, faces, width, height) ==
    RelaxLoopFrom(regular, regular \o fixed, fixed, faces, RelaxCircumcenters(faces),
                  1, width, height)

\* (mutant of RelaxResult: the fixed points put first)
RelaxResultFixedFirst(regular, fixed) == fixed \o regular

\* lines 113-115
RelaxResult(regular, fixed) == regular \o fixed

----------------------------------------------------------------------------
(* The calls of prelax that are checked *)

\* most relaxation steps of one call
MaxSteps == 2

\* positions the regular points are drawn from
RelaxSites == {<<0, 0>>, <<1, 2>>, <<3, 1>>, <<-2, 1>>, <<2, -3>>}

\* the fixed points of a call: none, a ring around the sites, a triangle
FixedLists ==
    {<<>>,
     <<<<-6, -6>>, <<6, -6>>, <<6, 6>>, <<-6, 6>>>>,
     <<<<-5, -4>>, <<6, -3>>, <<0, 7>>>>}

\* the regular points of a call: none, one site, two sites (the same one
\* twice included)
RegularLists ==
    {<<>>}
    \cup {<<a>> : a \in RelaxSites}
    \cup {<<a, b>> : a, b \in RelaxSites}

\* and, with the triangle or no fixed points, three
RegularTriples ==
    {<<<<0, 0>>, <<3, 1>>, <<-2, 1>>>>, <<<<1, 2>>, <<2, -3>>, <<1, 2>>>>}

\* the clamp of a call: (width, height)
RelaxClamps == {<<CANVAS_WIDTH, CANVAS_HEIGHT>>, <<4, 3>>}

RCalls ==
    {[regular |-> r, fixed |-> f, steps |-> n, width |-> c[1], height |-> c[2]] :
        r \in RegularLists, f \in FixedLists, n \in 0..MaxSteps, c \in RelaxClamps}
    \cup
    {[regular |-> r, fixed |-> f, steps |-> n, width |-> c[1], height |-> c[2]] :
        r \in RegularTriples, f \in {g \in FixedLists : Len(g) < 4},
        n \in 0..MaxSteps, c \in RelaxClamps}

RInit ==
    /\ pc = "relax"
    /\ rIn \in RCalls
    /\ rReg = rIn.regular
    /\ rFixed = rIn.fixed
    /\ rStep = 0
    /\ rDPoints = <<>>
    /\ rOut = <<>>
    /\ VpolyIdle
    /\ BisectIdle
    /\ SubIdle
    /\ RestIdle

\* lines 48-110: one iteration of the loop
RelaxStep ==
    /\ pc = "relax"
    /\ rStep < rIn.steps
    /\ \E faces \in FaceOrders(Range(rReg \o rFixed)) :
           rReg' = RelaxIteration(rReg, rFixed, faces, rIn.width, rIn.height)
    /\ rStep' = rStep + 1
    /\ rDPoints' = rReg \o rFixed
    /\ UNCHANGED <<pc, rIn, rFixed, rOut, vpolyVars, bisectVars, subVars, restVars>>

\* lines 113-115: the loop is over
RelaxReturn ==
    /\ pc = "relax"
    /\ rStep = rIn.steps
    /\ rOut' = RelaxResult(rReg, rFixed)
    /\ pc' = "relaxed"
    /\ UNCHANGED <<rIn, rReg, rFixed, rStep, rDPoints, vpolyVars, bisectVars, subVars, restVars>>

RNext == RelaxStep \/ RelaxReturn

SpecRelax == RInit /\ [][RNext]_vars

----------------------------------------------------------------------------
(* Statements about prelax *)

\* C2: prelax never writes a fixed point and keeps the number of regular
\* points; what it returns has |regular| + |fixed| entries, the last
\* |fixed| of them the fixed points as passed, in their order, the first
\* |regular| the regular points at their indices (as passed, when no step
\* was asked for)
C2_FixedPassThrough ==
    /\ rFixed = rIn.fixed
    /\ Len(rReg) = Len(rIn.regular)
    /\ pc = "relaxed" =>
          /\ Len(rOut) = Len(rIn.regular) + Len(rIn.fixed)
          /\ \A k \in 1..Len(rIn.fixed) : rOut[Len(rIn.regular) + k] = rIn.fixed[k]
          /\ \A i \in 1..Len(rIn.regular) : rOut[i] = rReg[i]
          /\ rIn.steps = 0 => \A i \in 1..Len(rIn.regular) : rOut[i] = rIn.regular[i]

\* a call that returned after a step that moved a regular point, with fixed
\* points passed
C2_Witness ==
    /\ pc = "relaxed"
    /\ rIn.steps >= 1
    /\ rIn.fixed # <<>>
    /\ \E i \in 1..Len(rIn.regular) : rOut[i] # rIn.regular[i]

\* point j of d_points as a step leaves it when the faces are `faces`
MovedFrom(faces, d_points, j) ==
    RelaxMove(faces, RelaxCircumcenters(faces), d_points[j], rIn.width, rIn.height)

\* C30: a relaxation step moves every regular point to the centroid of the
\* cell it has in the triangulation of the positions held when the step
\* began; a point moved earlier in the step has no part in where a later
\* one goes, and the step after starts from the positions all moved
C30_SimultaneousUpdate ==
    /\ [](rStep >= 1 =>
             \E S \in Triangulations(Range(rDPoints)) :
                 \A j \in 1..Len(rReg) : rReg[j] = MovedFrom(SeqOfSet(S), rDPoints, j))
    /\ [][rStep' = rStep + 1 => rDPoints' = rReg \o rFixed]_vars

\* the first step of a call moved the first two regular points, and the
\* second is not where it would be had its cell been taken after the first
\* was moved
C30_Witness ==
    /\ pc = "relax"
    /\ rStep = 1
    /\ Len(rIn.regular) >= 2
    /\ rIn.regular[1] # rIn.regular[2]
    /\ rReg[1] # rIn.regular[1]
    /\ rReg[2] # rIn.regular[2]
    /\ \A rebuilt \in FaceOrders(Range(<<rReg[1]>> \o Tail(rIn.regular) \o rIn.fixed)) :
           rReg[2] # MovedFrom(rebuilt, rIn.regular, 2)

----------------------------------------------------------------------------
(* poly/subdivision.rs: vlongest_edge, bisect_poly, push_polygon_from_line  *)
(*                                                                         *)
(* Indices are 1-based here: edge i runs from polygon[i] to its successor. *)
(* A ratio is a number of RatioDen-ths.  An angle offset is a number k of  *)
(* steps of 3.75 degrees, |k| <= 4, and its tangent is taken as k/TanDen  *)
(* (0.2667 for tan 15 deg = 0.2679).  The cut line is kept as              *)
(* [cut, dir, ext2]: line_start = cut - u * sqrt(ext2) and                 *)
(* line_end = cut + u * sqrt(ext2), u the unit vector along dir.           *)

RatioDen == 100

TanDen == 15

Succ(polygon, i) == (i % Len(polygon)) + 1

\* lines 113-123: the first edge of greatest length, index 0 when no edge
\* is longer than 0
RECURSIVE LongestFrom(_, _, _, _)
LongestFrom(polygon, i, max_length2, longest_idx) ==
    IF i > Len(polygon) THEN longest_idx
    ELSE LET length2 == Dist2(polygon[i], polygon[Succ(polygon, i)])
         IN  IF length2 > max_length2
             THEN LongestFrom(polygon, i + 1, length2, i)
             ELSE LongestFrom(polygon, i + 1, max_length2, longest_idx)

\* vlongest_edge: 0 for None, else the index of the edge's first vertex
vlongest_edge(polygon) ==
    IF Len(polygon) < 2 THEN 0 ELSE LongestFrom(polygon, 1, 0, 1)

\* Vec2::normalize keeps the direction only
Reduce(v) ==
    LET g == GCD(v[1], v[2])
    IN  IF g = 0 THEN v ELSE <<v[1] \div g, v[2] \div g>>

MinOf(S) == CHOOSE x \in S : \A y \in S : x <= y

MaxOf(S) == CHOOSE x \in S : \A y \in S : x >= y

\* lines 147-176 of bisect_poly: the cut line
CutLine(polygon, start_idx, ratio, angle) ==
    LET start_v == polygon[start_idx]
        next_v == polygon[Succ(polygon, start_idx)]
        edge_dir == Sub(next_v, start_v)
        cut_point == <<DivRound(RatioDen * start_v[1] + edge_dir[1] * ratio, RatioDen),
                       DivRound(RatioDen * start_v[2] + edge_dir[2] * ratio, RatioDen)>>
        perp == <<-edge_dir[2], edge_dir[1]>>
        \* perp * cos - rot(perp) * sin has the direction of perp - tan * edge_dir
        rotated == Reduce(<<TanDen * perp[1] - angle * edge_dir[1],
                            TanDen * perp[2] - angle * edge_dir[2]>>)
        xs == {polygon[i][1] : i \in 1..Len(polygon)}
        ys == {polygon[i][2] : i \in 1..Len(polygon)}
    IN  [cut |-> cut_point,
         dir |-> rotated,
         ext2 |-> Sq(MaxOf(xs) - MinOf(xs)) + Sq(MaxOf(ys) - MinOf(ys))]

\* utils.rs line_segment_intersection(line_start, line_end, p3, p4), for a
\* line kept as above: <<>> for None, <<point>> for Some(point).  With
\* e = p4 - p3, denom has the sign and the zeros of dir x e; a line built
\* on a zero-length edge has NaN endpoints and meets nothing.
line_segment_intersection(line, p3, p4) ==
    LET e == Sub(p4, p3)
        den == Cross(line.dir, e)
        w == Sub(line.cut, p3)
        snum == Cross(line.dir, w)          \* s = snum / den, along p3 p4
        tnum == Cross(e, w)                 \* the point is cut + dir * tnum / den
        d2 == Dot(line.dir, line.dir)
    IN  IF den = 0 THEN <<>>
        ELSE IF /\ (IF den > 0 THEN snum >= 0 /\ snum <= den ELSE snum <= 0 /\ snum >= den)
                \* 0 <= t <= 1: the point is within sqrt(ext2) of cut
                /\ Sq(tnum) * d2 <= line.ext2 * Sq(den)
             THEN <<(<<DivRoundSigned(line.cut[1] * den + line.dir[1] * tnum, den),
                       DivRoundSigned(line.cut[2] * den + line.dir[2] * tnum, den)>>)>>
             ELSE <<>>

\* lines 179-189: the (edge index, point) pairs, in edge order
RECURSIVE IntersectionsFrom(_, _, _)
IntersectionsFrom(polygon, line, i) ==
    IF i > Len(polygon) THEN <<>>
    ELSE LET hit == line_segment_intersection(line, polygon[i], polygon[Succ(polygon, i)])
         IN  (IF hit = <<>> THEN <<>> ELSE <<(<<i, hit[1]>>)>>)
             \o IntersectionsFrom(polygon, line, i + 1)

Intersections(polygon, line) == IntersectionsFrom(polygon, line, 1)

\* point_to_line_distance(vertex, line_start, line_end) < bound, where
\* along and across are the components of vertex - cut along and across
\* dir, times |dir|
CloserToLineThan(line, along, across, bound) ==
    LET d2 == Dot(line.dir, line.dir)
    IN  IF Sq(along) <= line.ext2 * d2
        THEN Sq(across) < Sq(bound) * d2
        ELSE \* the projection is clamped to an end of the segment
             LET l == Sq(across) + Sq(along) + line.ext2 * d2 - Sq(bound) * d2
             IN  l < 0 \/ Sq(l) < 4 * Sq(along) * d2 * line.ext2

\* lines 261-291 of push_polygon_from_line(polygon, line_start, line_end,
\* distance), with twice the distance passed: the polygon with the vertices
\* near the line moved
shrunk_polygon(polygon, line, distance2) ==
    LET d2 == Dot(line.dir, line.dir)
        line_normal == <<-line.dir[2], line.dir[1]>>
        area2 == polygon_area2(polygon)
        \* lines 265-268: the sign of (centroid - line_start) . line_normal
        centroid_side ==
            IF area2 = 0 THEN -Dot(line.cut, line_normal)
            ELSE LET raw == (CentroidSum(polygon, 1, 1) - 3 * area2 * line.cut[1]) * line_normal[1]
                          + (CentroidSum(polygon, 2, 1) - 3 * area2 * line.cut[2]) * line_normal[2]
                 IN  IF area2 > 0 THEN raw ELSE -raw
        sign == IF centroid_side > 0 THEN 1 ELSE -1
        \* vertex + separation_direction * distance, for a vertex near the line
        Shrunk(vertex, shift) ==
            LET along == Dot(Sub(vertex, line.cut), line.dir)
                across == Cross(Sub(vertex, line.cut), line.dir)
            IN  IF CloserToLineThan(line, along, across, distance2)
                THEN \* -0.1 <= t <= 1.1, t = 1/2 + along / (2 |dir| sqrt(ext2))
                     IF 25 * Sq(along) <= 36 * line.ext2 * d2
                     THEN <<vertex[1] + shift[1], vertex[2] + shift[2]>>
                     ELSE vertex
                ELSE vertex
    IN  With(<<sign * RoundDivRoot(distance2 * line_normal[1], 4 * d2),
               sign * RoundDivRoot(distance2 * line_normal[2], 4 * d2)>>, LAMBDA shift :
            [i \in 1..Len(polygon) |-> Shrunk(polygon[i], shift)])

\* lines 294-295: shrunk_area < polygon_area(polygon) * 0.2
Degenerated(polygon, shrunk) ==
    5 * polygon_area2(shrunk) < polygon_area2(polygon)

\* push_polygon_from_line(polygon, line_start, line_end, distance)
push_polygon_from_line(polygon, line, distance2) ==
    IF Len(polygon) < 3 THEN polygon
    ELSE With(shrunk_polygon(polygon, line, distance2), LAMBDA shrunk :
             IF Degenerated(polygon, shrunk) THEN polygon ELSE shrunk)

\* (mutant of CleanSplit: any two or more intersections accepted)
CleanSplitAtLeastTwo(intersections) == Len(intersections) >= 2

\* lines 191-194: "ensure clean split, requires exactly 2 intersections"
CleanSplit(intersections) == Len(intersections) = 2

\* lines 224 and 231: twice the area of 0.1 a half has to exceed, in square
\* lattice units, rounded down.  The lattice unit is a metre (the floor is
\* then 0) unless the call of subdivide_to_plots in progress says how many
\* units make a metre
HalfAreaFloor2 ==
    IF "unit" \in DOMAIN sIn THEN (2 * Sq(sIn.unit)) \div 10 ELSE 0

\* lines 224-237: a raw half is kept when it has 3 vertices and area > 0.1,
\* pushed off the line by an alley
KeptHalf(poly, line, separation) ==
    IF Len(poly) >= 3 /\ polygon_area2(poly) > HalfAreaFloor2
    THEN IF separation > 0
         THEN <<push_polygon_from_line(poly, line, separation)>>
         ELSE <<poly>>
    ELSE <<>>

SubSeqOrEmpty(s, a, b) == IF a > b THEN <<>> ELSE SubSeq(s, a, b)

\* (mutant of RawHalves: the first half begins with the vertex the first
\* cut edge starts at)
RawHalvesFromIdx1(polygon, intersections) ==
    LET idx1 == intersections[1][1]
        int1 == intersections[1][2]
        idx2 == intersections[2][1]
        int2 == intersections[2][2]
    IN  <<<<int1>> \o SubSeqOrEmpty(polygon, idx1, idx2) \o <<int2>>,
          <<int2>> \o SubSeqOrEmpty(polygon, idx2 + 1, Len(polygon))
                   \o SubSeqOrEmpty(polygon, 1, idx1) \o <<int1>>>>

\* lines 203-221: the two raw halves
RawHalves(polygon, intersections) ==
    LET idx1 == intersections[1][1]
        int1 == intersections[1][2]
        idx2 == intersections[2][1]
        int2 == intersections[2][2]
    IN  <<<<int1>> \o SubSeqOrEmpty(polygon, idx1 + 1, idx2) \o <<int2>>,
          <<int2>> \o SubSeqOrEmpty(polygon, idx2 + 1, Len(polygon))
                   \o SubSeqOrEmpty(polygon, 1, idx1) \o <<int1>>>>

\* lines 191-243, the line and the intersections being known
SplitAlong(polygon, line, intersections, separation) ==
    IF ~CleanSplit(intersections) THEN <<polygon>>
    ELSE With(RawHalves(polygon, intersections), LAMBDA raw :
             With(KeptHalf(raw[1], line, separation) \o KeptHalf(raw[2], line, separation),
                  LAMBDA result : IF result = <<>> THEN <<polygon>> ELSE result))

bisect_poly(polygon, start_idx, ratio, angle, separation) ==
    IF Len(polygon) < 3 \/ start_idx > Len(polygon) THEN <<polygon>>
    ELSE With(CutLine(polygon, start_idx, ratio, angle), LAMBDA line :
             With(Intersections(polygon, line), LAMBDA intersections :
                 SplitAlong(polygon, line, intersections, separation)))

----------------------------------------------------------------------------
(* The calls of push_polygon_from_line that are checked *)

\* a rectangle, a flat triangle, a dart whose notch faces the line, and a
\* two-vertex list; each polygon in both windings
PushPolygons ==
    LET ps == {<<<<0, 0>>, <<8, 0>>, <<8, 4>>, <<0, 4>>>>,
               <<<<0, 0>>, <<8, 0>>, <<4, 2>>>>,
               <<<<0, 0>>, <<4, 3>>, <<8, 0>>, <<4, 8>>>>,
               <<<<0, 0>>, <<3, 3>>>>}
    IN  ps \cup {Reversed(q) : q \in ps}

\* segments along and across the polygons, of half length 2, 4 and 8
PushLines ==
    {[cut |-> c, dir |-> d, ext2 |-> e] :
        c \in {<<4, 0>>, <<4, 2>>, <<0, 2>>, <<4, -1>>},
        d \in {<<1, 0>>, <<0, 1>>, <<1, 1>>},
        e \in {4, 16, 64}}

\* distances of 1 to 4
PushCalls ==
    {[fn |-> "push_polygon_from_line", polygon |-> q, line |-> l, distance2 |-> w] :
        q \in PushPolygons, l \in PushLines, w \in {2, 4, 6, 8}}

PInit ==
    /\ pc = "call"
    /\ fIn \in PushCalls
    /\ fOut = <<>>
    /\ VpolyIdle
    /\ RelaxIdle
    /\ BisectIdle
    /\ SubIdle
    /\ TownIdle
    /\ InputIdle

\* one call; the polygon with the near vertices moved is kept beside the
\* result
PushCall ==
    /\ pc = "call"
    /\ fIn.fn = "push_polygon_from_line"
    /\ fOut' = [result |-> push_polygon_from_line(fIn.polygon, fIn.line, fIn.distance2),
                shrunk |-> IF Len(fIn.polygon) < 3 THEN fIn.polygon
                           ELSE shrunk_polygon(fIn.polygon, fIn.line, fIn.distance2)]
    /\ pc' = "returned"
    /\ UNCHANGED <<fIn, vpolyVars, relaxVars, bisectVars, subVars, townVars, inputVars>>

PNext == PushCall

SpecPush == PInit /\ [][PNext]_vars

----------------------------------------------------------------------------
(* The calls of bisect_poly that are checked *)

\* polygons: a square, a rectangle in either winding, a triangle whose apex
\* faces the middle of its longest edge, a U shape, a triangle with a
\* repeated vertex, and lists too short to be polygons
BisectPolygons ==
    {<<<<0, 0>>, <<8, 0>>, <<8, 8>>, <<0, 8>>>>,
     <<<<0, 0>>, <<8, 0>>, <<8, 4>>, <<0, 4>>>>,
     <<<<0, 4>>, <<8, 4>>, <<8, 0>>, <<0, 0>>>>,
     <<<<0, 0>>, <<8, 0>>, <<4, 6>>>>,
     <<<<0, 0>>, <<8, 0>>, <<8, 6>>, <<6, 6>>, <<6, 2>>, <<2, 2>>, <<2, 6>>, <<0, 6>>>>,
     <<<<0, 0>>, <<0, 0>>, <<4, 4>>>>,
     <<<<0, 0>>, <<3, 3>>>>,
     <<>>}

\* ratios 0, 1/4, 1/2 and 1, angle offsets of -15, 0 and 15 degrees, no
\* alley or one of width 2
BCalls ==
    {[polygon |-> poly, start_idx |-> i, ratio |-> r, angle |-> k, separation |-> w] :
        poly \in BisectPolygons, i \in 1..9, r \in {0, 25, 50, 100},
        k \in {-4, 0, 4}, w \in {0, 2}}

BInit ==
    /\ pc = "bisect"
    /\ bIn \in {c \in BCalls : c.start_idx <= Len(c.polygon) + 1}
    /\ bOut = <<>>
    /\ VpolyIdle
    /\ RelaxIdle
    /\ SubIdle
    /\ RestIdle

\* one call of bisect_poly; the intersections it found are kept beside the
\* result (empty when the call returned before looking for them)
BisectCall ==
    /\ pc = "bisect"
    /\ bOut' = [result |-> bisect_poly(bIn.polygon, bIn.start_idx, bIn.ratio,
                                       bIn.angle, bIn.separation),
                intersections |->
                    IF Len(bIn.polygon) < 3 \/ bIn.start_idx > Len(bIn.polygon)
                    THEN <<>>
                    ELSE Intersections(bIn.polygon,
                             CutLine(bIn.polygon, bIn.start_idx, bIn.ratio, bIn.angle)),
                \* lines 203-221: the halves before the area filter
                raw |->
                    IF Len(bIn.polygon) < 3 \/ bIn.start_idx > Len(bIn.polygon)
                    THEN <<>>
                    ELSE With(Intersections(bIn.polygon,
                                  CutLine(bIn.polygon, bIn.start_idx, bIn.ratio, bIn.angle)),
                              LAMBDA intersections :
                                  IF CleanSplit(intersections)
                                  THEN RawHalves(bIn.polygon, intersections)
                                  ELSE <<>>)]
    /\ pc' = "bisected"
    /\ UNCHANGED <<bIn, vpolyVars, relaxVars, subVars, restVars>>

BNext == BisectCall

SpecBisect == BInit /\ [][BNext]_vars

----------------------------------------------------------------------------
(* Statements about bisect_poly *)

\* C6: a call of bisect_poly whose cut line does not meet exactly two edges
\* returns the list of the input polygon alone, unchanged; it returns
\* anything else only when the line meets exactly two edges
C6_SplitsOnlyOnTwoIntersections ==
    pc = "bisected" =>
        /\ Len(bOut.intersections) # 2 => bOut.result = <<bIn.polygon>>
        /\ bOut.result # <<bIn.polygon>> => Len(bOut.intersections) = 2

\* a cut through the apex of the triangle: it meets the edge it starts on
\* and both edges that end in the apex
C6_Witness ==
    /\ pc = "bisected"
    /\ Len(bIn.polygon) >= 3
    /\ Len(bOut.intersections) = 3
    /\ bOut.result = <<bIn.polygon>>

\* a list without its first and its last element
Inner(s) == SubSeqOrEmpty(s, 2, Len(s) - 1)

\* C25: when the cut line of bisect_poly meets exactly two edges idx1 < idx2
\* of a polygon of n vertices, the first raw half is int1, the vertices
\* after edge idx1 up to edge idx2, int2; the second is int2, the vertices
\* after edge idx2 round to edge idx1, int1.  Between the intersection
\* points the two halves hold the ring of the polygon's vertices, each
\* once and in order; the lengths add up to n + 4 and each is 3 or more
C25_RawHalvesPartitionRing ==
    (pc = "bisected" /\ Len(bOut.intersections) = 2) =>
        LET n == Len(bIn.polygon)
            idx1 == bOut.intersections[1][1]
            int1 == bOut.intersections[1][2]
            idx2 == bOut.intersections[2][1]
            int2 == bOut.intersections[2][2]
            poly1 == bOut.raw[1]
            poly2 == bOut.raw[2]
        IN  /\ idx1 < idx2
            /\ Len(bOut.raw) = 2
            /\ Len(poly1) >= 3 /\ Len(poly2) >= 3
            /\ Len(poly1) + Len(poly2) = n + 4
            /\ poly1[1] = int1 /\ poly1[Len(poly1)] = int2
            /\ poly2[1] = int2 /\ poly2[Len(poly2)] = int1
            /\ Inner(poly1) = [k \in 1..(idx2 - idx1) |-> bIn.polygon[idx1 + k]]
            /\ Inner(poly1) \o Inner(poly2) = Rotated(bIn.polygon, idx1)

\* a polygon of more than 4 vertices cut between two edges neither of which
\* is its first or its last, each half getting two of its vertices or more
C25_Witness ==
    /\ pc = "bisected"
    /\ Len(bOut.intersections) = 2
    /\ Len(bIn.polygon) > 4
    /\ bOut.intersections[1][1] > 1
    /\ bOut.intersections[2][1] < Len(bIn.polygon)
    /\ Len(bOut.raw[1]) >= 4
    /\ Len(bOut.raw[2]) >= 4

----------------------------------------------------------------------------
(* poly/subdivision.rs: subdivide_to_plots                                 *)
(*                                                                         *)
(* rng.random::<f32>() is a number of DrawDen-ths below 1.  grid_chaos is  *)
(* a number of tenths, size_chaos a whole number, empty_prob a number of   *)
(* DrawDen-ths, min_sq a whole number of square units, an alley chance a   *)
(* fraction <<n, d>> (<<0, 0>> for NaN), an alley width a whole number.    *)
(* The recursion is a stack of frames; a frame is the call's arguments,    *)
(* where it is ("enter": not yet past line 24; "loop": in the loop over    *)
(* the halves), the halves still to visit, its `buildings`, and the        *)
(* shadowed alley_chance and alley_width it hands to the calls it makes.   *)

DrawDen == 4

\* line 25
DepthExceeded(depth, max_recursion_depth) == depth > max_recursion_depth

\* (mutant of TooSmall: the area check dropped)
TooSmallNever(polygon, min_sq) == FALSE

\* line 32: area < min_sq
TooSmall(polygon, min_sq) == polygon_area2(polygon) < 2 * min_sq

\* lines 24-40: the call returns before anything is drawn
ReturnsAtOnce(polygon, depth, min_sq, max_recursion_depth) ==
    \/ DepthExceeded(depth, max_recursion_depth)
    \/ TooSmall(polygon, min_sq)
    \/ vlongest_edge(polygon) = 0

\* (mutant of CutRatio: a quarter of the way along the edge)
CutRatioQuarter(grid_chaos, u) == RatioDen \div 4

\* lines 42-43, in RatioDen-ths; spread = 0.8 * grid_chaos is 8 * grid_chaos
\* hundredths
CutRatio(grid_chaos, u) ==
    (RatioDen - 8 * grid_chaos) \div 2 + (8 * grid_chaos * u) \div DrawDen

\* lines 44-49, in steps of 3.75 degrees: (u - 0.5) * 30 degrees * grid_chaos
AngleOffset(polygon, min_sq, grid_chaos, u) ==
    IF polygon_area2(polygon) < 8 * min_sq THEN 0
    ELSE ((2 * u - DrawDen) * 2 * grid_chaos) \div (5 * DrawDen)

\* lines 53-54: alley_chance * (1 - depth / max_recursion_depth); 0 / 0 is
\* NaN, and so is every product with NaN
DecayedChance(alley_chance, depth, max_recursion_depth) ==
    IF max_recursion_depth = 0 \/ alley_chance[2] = 0 THEN <<0, 0>>
    ELSE LET n == alley_chance[1] * (max_recursion_depth - depth)
             d == alley_chance[2] * max_recursion_depth
             g == GCD(n, d)
         IN  <<n \div g, d \div g>>

\* line 56: rng.random::<f32>() < alley_chance (false against NaN)
AlleyDrawn(u, alley_chance) ==
    alley_chance[2] > 0 /\ u * alley_chance[2] < DrawDen * alley_chance[1]

\* line 61
SplitFailed(halves, polygon) ==
    Len(halves) = 1 /\ Len(halves[1]) = Len(polygon)

\* lines 73-76: half_area < min_sq * 2^(4 * size_chaos * (u - 0.5)) * 2
FinalPlot(half, min_sq, size_chaos, u) ==
    LET e == size_chaos * ((4 * u - 2 * DrawDen) \div DrawDen)
    IN  IF e >= 0
        THEN polygon_area2(half) < 4 * min_sq * 2 ^ e
        ELSE polygon_area2(half) * 2 ^ (-e) < 4 * min_sq

\* line 78
KeepsPlot(u, empty_prob) == u >= empty_prob

\* a call as it is entered
Frame(polygon, depth, alley_chance, alley_width, entered) ==
    [polygon |-> polygon, depth |-> depth,
     alley_chance |-> alley_chance, alley_width |-> alley_width,
     phase |-> "enter", halves |-> <<>>, buildings |-> <<>>,
     next_chance |-> alley_chance, next_width |-> alley_width,
     entered |-> entered]

\* (mutant of Returned: the frame of the call that returns stays)
ReturnedKeepsFrame(stack, ret) == stack

\* the stack after the innermost call returned ret: its caller, if any, has
\* extended its buildings by it (line 83)
Returned(stack, ret) ==
    LET rest == Tail(stack)
    IN  IF rest = <<>> THEN <<>>
        ELSE <<[rest[1] EXCEPT !.buildings = @ \o ret]>> \o Tail(rest)

\* (mutant of ChildDepth: two levels at a time)
ChildDepthSkips(depth) == depth + 2

\* line 89
ChildDepth(depth) == depth + 1

\* the innermost call returns ret, having drawn `drawn` values in this step
ReturnStep(ret, drawn) ==
    LET top == sStack[1]
    IN  /\ sStack' = Returned(sStack, ret)
        /\ sDraws' = sDraws + drawn
        /\ sLast' = [polygon |-> top.polygon, depth |-> top.depth, result |-> ret,
                     entered |-> top.entered, left |-> sDraws + drawn]
        /\ IF sStack' = <<>>
           THEN sOut' = ret /\ pc' = "subdivided"
           ELSE UNCHANGED <<sOut, pc>>

----------------------------------------------------------------------------
(* The calls of subdivide_to_plots that are checked *)

\* greatest max_recursion_depth of a call
MaxDepth == 3

\* the values rng yields: 0, 1/2 and 3/4; a call's field rng is the set of
\* values its generator yields
Draws == {0, 2, 3}

Block == <<<<0, 0>>, <<8, 0>>, <<8, 4>>, <<0, 4>>>>

\* a block in either winding, a triangle whose first cut goes through its
\* apex, and lists too short to be polygons
SubPolygons ==
    {Block, Reversed(Block), <<<<0, 0>>, <<8, 0>>, <<4, 6>>>>,
     <<<<0, 0>>, <<3, 3>>>>, <<<<1, 1>>>>, <<>>}

\* the parameter settings: one kind of chance at a time, all at once, and
\* none, with plots of 4, 8, 12 or 20 square units or of any size
SubSettings ==
    {[min_sq |-> 4, grid_chaos |-> 0, size_chaos |-> 0, empty_prob |-> 0,
      alley_chance |-> <<0, 1>>, alley_width |-> 0],
     [min_sq |-> 8, grid_chaos |-> 10, size_chaos |-> 0, empty_prob |-> 0,
      alley_chance |-> <<0, 1>>, alley_width |-> 0],
     [min_sq |-> 12, grid_chaos |-> 5, size_chaos |-> 1, empty_prob |-> 2,
      alley_chance |-> <<1, 2>>, alley_width |-> 2],
     [min_sq |-> 12, grid_chaos |-> 0, size_chaos |-> 1, empty_prob |-> 2,
      alley_chance |-> <<0, 1>>, alley_width |-> 0],
     [min_sq |-> 4, grid_chaos |-> 0, size_chaos |-> 0, empty_prob |-> 0,
      alley_chance |-> <<1, 2>>, alley_width |-> 2],
     [min_sq |-> 0, grid_chaos |-> 0, size_chaos |-> 0, empty_prob |-> 0,
      alley_chance |-> <<0, 1>>, alley_width |-> 0],
     [min_sq |-> 20, grid_chaos |-> 0, size_chaos |-> 0, empty_prob |-> 0,
      alley_chance |-> <<0, 1>>, alley_width |-> 0]}

SCalls ==
    {[polygon |-> poly, min_sq |-> c.min_sq, grid_chaos |-> c.grid_chaos,
      size_chaos |-> c.size_chaos, empty_prob |-> c.empty_prob,
      max_recursion_depth |-> m,
      alley_chance |-> c.alley_chance, alley_width |-> c.alley_width,
      rng |-> Draws] :
        poly \in SubPolygons, c \in SubSettings, m \in 0..MaxDepth}

\* town.rs line 101: the top-level call, depth 0
SInit ==
    /\ pc = "subdivide"
    /\ sIn \in SCalls
    /\ sStack = <<Frame(sIn.polygon, 0, sIn.alley_chance, sIn.alley_width, 0)>>
    /\ sDraws = 0
    /\ sOut = <<>>
    /\ sLast = <<>>
    /\ sDeepest = [call |-> 0, cut |-> -1]
    /\ sCut = <<>>
    /\ VpolyIdle
    /\ RelaxIdle
    /\ BisectIdle
    /\ RestIdle

\* StdRng::seed_from_u64(seed) is a fixed function of the seed: the k-th
\* value a generator seeded with `seed` yields, in DrawDen-ths.  The values
\* are read from a table, as the algorithm itself is not modelled.
StdRngTable == <<0, 2, 3, 3, 0, 2, 2>>

StdRng(seed, k) == StdRngTable[((3 * seed + k * (seed + 1)) % Len(StdRngTable)) + 1]

\* the values the call's generator can yield as its k-th: the value of the
\* seed's stream where the call says what the generator was seeded with
\* (town.rs line 100), any value of rng where it does not
Drawn(k) == IF "seed" \in DOMAIN sIn THEN {StdRng(sIn.seed, k)} ELSE sIn.rng

otherVars == <<sIn, vpolyVars, relaxVars, bisectVars, restVars>>

\* lines 24-40: the innermost call is entered and returns at once
SubReturnAtOnce ==
    /\ pc = "subdivide"
    /\ sStack # <<>>
    /\ sStack[1].phase = "enter"
    /\ ReturnsAtOnce(sStack[1].polygon, sStack[1].depth, sIn.min_sq,
                     sIn.max_recursion_depth)
    /\ ReturnStep(<<sStack[1].polygon>>, 0)
    /\ UNCHANGED <<sDeepest, sCut, otherVars>>

\* lines 42-66: it draws the ratio, the angle and the alley, and cuts
SubCut ==
    /\ pc = "subdivide"
    /\ sStack # <<>>
    /\ sStack[1].phase = "enter"
    /\ ~ReturnsAtOnce(sStack[1].polygon, sStack[1].depth, sIn.min_sq,
                      sIn.max_recursion_depth)
    /\ \E u1 \in Drawn(sDraws + 1), u2 \in Drawn(sDraws + 2), u3 \in Drawn(sDraws + 3) :
       \E longest_idx \in {vlongest_edge(sStack[1].polygon)},
          ratio \in {CutRatio(sIn.grid_chaos, u1)},
          angle_offset \in {AngleOffset(sStack[1].polygon, sIn.min_sq, sIn.grid_chaos, u2)},
          alley_chance \in {DecayedChance(sStack[1].alley_chance, sStack[1].depth,
                                          sIn.max_recursion_depth)} :
       \E alley_width \in {IF AlleyDrawn(u3, alley_chance)
                            THEN sStack[1].alley_width ELSE 0} :
       \E halves \in {bisect_poly(sStack[1].polygon, longest_idx, ratio, angle_offset,
                                   alley_width)} :
         LET top == sStack[1]
         IN  /\ sDeepest' = [sDeepest EXCEPT !.cut = IF top.depth > @ THEN top.depth ELSE @]
             /\ sCut' = [depth |-> top.depth, polygon |-> top.polygon,
                         chance |-> alley_chance,
                         drawn |-> AlleyDrawn(u3, alley_chance),
                         start_idx |-> longest_idx, ratio |-> ratio,
                         angle |-> angle_offset, separation |-> alley_width,
                         halves |-> halves,
                         failed |-> SplitFailed(halves, top.polygon)]
             /\ IF SplitFailed(halves, top.polygon)
                THEN ReturnStep(<<top.polygon>>, 3)
                ELSE /\ sStack' = <<[top EXCEPT !.phase = "loop",
                                                !.halves = halves,
                                                !.next_chance = alley_chance,
                                                !.next_width = alley_width]>>
                                  \o Tail(sStack)
                     /\ sDraws' = sDraws + 3
                     /\ UNCHANGED <<sOut, sLast, pc>>
    /\ UNCHANGED otherVars

\* lines 69-81: the next half is a final plot, kept or left empty
SubFinalPlot ==
    /\ pc = "subdivide"
    /\ sStack # <<>>
    /\ sStack[1].phase = "loop"
    /\ sStack[1].halves # <<>>
    /\ \E u4 \in Drawn(sDraws + 1), u5 \in Drawn(sDraws + 2) :
         LET top == sStack[1]
             half == Head(top.halves)
         IN  /\ FinalPlot(half, sIn.min_sq, sIn.size_chaos, u4)
             /\ sStack' = <<[top EXCEPT !.halves = Tail(@),
                                        !.buildings = IF KeepsPlot(u5, sIn.empty_prob)
                                                      THEN Append(@, half) ELSE @]>>
                          \o Tail(sStack)
             /\ sDraws' = sDraws + 2
    /\ UNCHANGED <<sOut, sLast, sDeepest, sCut, pc, otherVars>>

\* lines 69-76, 82-94: the next half is subdivided in its turn
SubRecurse ==
    /\ pc = "subdivide"
    /\ sStack # <<>>
    /\ sStack[1].phase = "loop"
    /\ sStack[1].halves # <<>>
    /\ \E u4 \in Drawn(sDraws + 1) :
         LET top == sStack[1]
             half == Head(top.halves)
             depth == ChildDepth(top.depth)
         IN  /\ ~FinalPlot(half, sIn.min_sq, sIn.size_chaos, u4)
             /\ sStack' = <<Frame(half, depth, top.next_chance, top.next_width, sDraws + 1),
                            [top EXCEPT !.halves = Tail(@)]>>
                          \o Tail(sStack)
             /\ sDraws' = sDraws + 1
             /\ sDeepest' = [sDeepest EXCEPT !.call = IF depth > @ THEN depth ELSE @]
    /\ UNCHANGED <<sOut, sLast, sCut, pc, otherVars>>

\* line 98: every half was visited
SubReturn ==
    /\ pc = "subdivide"
    /\ sStack # <<>>
    /\ sStack[1].phase = "loop"
    /\ sStack[1].halves = <<>>
    /\ ReturnStep(sStack[1].buildings, 0)
    /\ UNCHANGED <<sDeepest, sCut, otherVars>>

SNext == SubReturnAtOnce \/ SubCut \/ SubFinalPlot \/ SubRecurse \/ SubReturn

SpecSubdivide == SInit /\ [][SNext]_vars

\* a call in progress is not suspended for ever
SpecSubdivideFair == SpecSubdivide /\ WF_vars(SNext)

\* the 20 x 20 block subdivided without grid chaos and without alleys, at
\* the default depth limit: min_sq 15, any size_chaos, empty_prob, alley_width;
\* the generator yields any values where none decides anything, and one value
\* throughout otherwise. Lengths are in half units here and areas in quarter
\* square units, so that every half down to 12.5 square units is on the lattice
Square20 == <<<<0, 0>>, <<40, 0>>, <<40, 40>>, <<0, 40>>>>

SquareCalls ==
    {[polygon |-> Square20, min_sq |-> 60, grid_chaos |-> 0,
      size_chaos |-> sc, empty_prob |-> ep,
      max_recursion_depth |-> MAX_RECURSION_DEPTH,
      alley_chance |-> <<0, 1>>, alley_width |-> w, rng |-> r] :
        sc \in {0, 1}, ep \in {0, 2}, w \in {0, 2},
        r \in {{u} : u \in Draws} \cup {Draws}}
    \ {c \in [polygon : {Square20}, min_sq : {60}, grid_chaos : {0},
               size_chaos : {0, 1}, empty_prob : {0, 2},
               max_recursion_depth : {MAX_RECURSION_DEPTH},
               alley_chance : {<<0, 1>>}, alley_width : {0, 2}, rng : {Draws}] :
           c.size_chaos # 0 \/ c.empty_prob # 0}

SquareInit ==
    /\ pc = "subdivide"
    /\ sIn \in SquareCalls
    /\ sStack = <<Frame(sIn.polygon, 0, sIn.alley_chance, sIn.alley_width, 0)>>
    /\ sDraws = 0
    /\ sOut = <<>>
    /\ sLast = <<>>
    /\ sDeepest = [call |-> 0, cut |-> -1]
    /\ sCut = <<>>
    /\ VpolyIdle
    /\ RelaxIdle
    /\ BisectIdle
    /\ RestIdle

SpecSquare == SquareInit /\ [][SNext]_vars

\* calls on small plots, in Tenths: a triangle 10 m long and 0.1 m high
\* whose apex lies over the first twentieth of its longest edge, and a
\* block of 4 m by 2 m; the cuts are at a right angle to the longest edge,
\* min_sq being more than a quarter of the area
Sliver == <<<<0, 0>>, <<100, 0>>, <<5, 1>>>>

SliverCalls ==
    {[polygon |-> c[1], min_sq |-> c[2], grid_chaos |-> g,
      size_chaos |-> 0, empty_prob |-> e, max_recursion_depth |-> m,
      alley_chance |-> <<0, 1>>, alley_width |-> 0, rng |-> Draws,
      unit |-> Tenths] :
        c \in {<<Sliver, 20>>, <<Reversed(Sliver), 20>>,
                <<<<<<0, 0>>, <<40, 0>>, <<40, 20>>, <<0, 20>>>>, 300>>},
        g \in {0, 10}, e \in {0, 2}, m \in 0..1}

SliverInit ==
    /\ pc = "subdivide"
    /\ sIn \in SliverCalls
    /\ sStack = <<Frame(sIn.polygon, 0, sIn.alley_chance, sIn.alley_width, 0)>>
    /\ sDraws = 0
    /\ sOut = <<>>
    /\ sLast = <<>>
    /\ sDeepest = [call |-> 0, cut |-> -1]
    /\ sCut = <<>>
    /\ VpolyIdle
    /\ RelaxIdle
    /\ BisectIdle
    /\ RestIdle

SpecSliver == SliverInit /\ [][SNext]_vars

----------------------------------------------------------------------------
(* Statements about subdivide_to_plots *)

\* C3: every top-level call of subdivide_to_plots returns, whatever the
\* polygon, the values drawn and max_recursion_depth; what it returns is a
\* finite list of polygons
C3_Terminates == <>(pc = "subdivided" /\ sStack = <<>> /\ Len(sOut) \in Nat)

\* a call that returned after calls within calls, with several plots
C3_Witness ==
    /\ pc = "subdivided"
    /\ sDeepest.call >= 2
    /\ Len(sOut) >= 3

\* C4, as stated: no call is made with a depth above max_recursion_depth
C4_NoCallPastMaxDepth == sDeepest.call <= sIn.max_recursion_depth

\* C4, as the code has it: no call is made with a depth above
\* max_recursion_depth + 1, and no call at a depth above max_recursion_depth
\* cuts its polygon or makes a call
C4_NoCutPastMaxDepth ==
    /\ sDeepest.call <= sIn.max_recursion_depth + 1
    /\ sDeepest.cut <= sIn.max_recursion_depth
    /\ \A k \in 1..Len(sStack) :
          /\ sStack[k].depth <= sIn.max_recursion_depth + 1
          /\ sStack[k].phase = "loop" => sStack[k].depth <= sIn.max_recursion_depth

\* a call made at depth max_recursion_depth + 1 has returned its polygon
C4_Witness ==
    /\ sLast # <<>>
    /\ sLast.depth = sIn.max_recursion_depth + 1
    /\ sDeepest.cut = sIn.max_recursion_depth
    /\ sLast.result = <<sLast.polygon>>

\* C5: a call with depth > max_recursion_depth, or a polygon of area below
\* min_sq, or a polygon of fewer than 2 vertices, returns the list of its
\* polygon alone and draws nothing from rng
C5_ReturnsAtOnceWithoutDraw ==
    (/\ sLast # <<>>
     /\ \/ sLast.depth > sIn.max_recursion_depth
        \/ polygon_area2(sLast.polygon) < 2 * sIn.min_sq
        \/ Len(sLast.polygon) < 2)
    => /\ sLast.result = <<sLast.polygon>>
       /\ sLast.left = sLast.entered

\* a call within a call returned at once because its polygon was too small,
\* after values had been drawn
C5_Witness ==
    /\ sLast # <<>>
    /\ sLast.depth >= 1
    /\ sLast.depth <= sIn.max_recursion_depth
    /\ polygon_area2(sLast.polygon) < 2 * sIn.min_sq
    /\ sLast.entered > 0
    /\ sLast.left = sLast.entered

\* C12: the alley_chance a call at depth d compares its draw with is the
\* alley_chance of the top-level call times (1 - d / max_recursion_depth)
C12_LinearDecay ==
    (sCut # <<>> /\ sIn.max_recursion_depth > 0) =>
        /\ sCut.chance[2] > 0
        /\ sCut.chance[1] * sIn.alley_chance[2] * sIn.max_recursion_depth
           = sCut.chance[2] * sIn.alley_chance[1]
             * (sIn.max_recursion_depth - sCut.depth)

\* C13: a cut whose alley draw succeeded is made with the alley_width of the
\* top-level call, one whose draw failed with none
C13_AlleyWidthPerLevel ==
    sCut # <<>> =>
        sCut.separation = IF sCut.drawn THEN sIn.alley_width ELSE 0

\* C14: when the polygon passed in is itself not below
\* min_sq * 2^(-2 * size_chaos), no polygon returned is below it
C14_NoPlotBelowMin ==
    (/\ pc = "subdivided"
     /\ polygon_area2(sIn.polygon) * 4 ^ sIn.size_chaos >= 2 * sIn.min_sq)
    => \A k \in 1..Len(sOut) :
          polygon_area2(sOut[k]) * 4 ^ sIn.size_chaos >= 2 * sIn.min_sq

\* the cut made last went through the middle of the longest edge of its
\* polygon, at a right angle to it
CutThroughMidpoint ==
    LET edge_dir == Sub(sCut.polygon[Succ(sCut.polygon, sCut.start_idx)],
                        sCut.polygon[sCut.start_idx])
        line == CutLine(sCut.polygon, sCut.start_idx, sCut.ratio, sCut.angle)
    IN  /\ \A i \in 1..Len(sCut.polygon) :
              Dist2(sCut.polygon[i], sCut.polygon[Succ(sCut.polygon, i)])
              <= Dot(edge_dir, edge_dir)
        /\ 2 * sCut.ratio = RatioDen
        /\ Dot(line.dir, edge_dir) = 0

\* every plot returned has 15 <= area < 60 (60 and 240 quarters, doubled)
LeavesBetween15And60 ==
    pc = "subdivided" =>
        \A k \in 1..Len(sOut) :
            polygon_area2(sOut[k]) >= 120 /\ polygon_area2(sOut[k]) < 480

\* C15, as stated: on the 20 x 20 block, whatever size_chaos and empty_prob
\* are, every cut goes through the middle of the longest edge at a right
\* angle and every plot returned has area in [15, 60)
C15_SquareAnyChaos ==
    /\ sCut # <<>> => CutThroughMidpoint
    /\ LeavesBetween15And60

\* C15, as the code has it: the same with size_chaos = 0
C15_SquareNoSizeChaos ==
    sIn.size_chaos = 0 =>
        /\ sCut # <<>> => CutThroughMidpoint
        /\ LeavesBetween15And60

\* the block was cut into plots, none left empty
C15_Witness ==
    /\ pc = "subdivided"
    /\ sIn.size_chaos = 0
    /\ Len(sOut) = 16
    /\ sDeepest.cut = 3

----------------------------------------------------------------------------
(* Statements about push_polygon_from_line *)

\* the area of shrunk, measured in the winding of polygon, is less than a
\* fifth of the area of polygon
BelowFifth(polygon, shrunk) ==
    IF polygon_area2(polygon) >= 0
    THEN 5 * polygon_area2(shrunk) < polygon_area2(polygon)
    ELSE 5 * (-polygon_area2(shrunk)) < -polygon_area2(polygon)

\* C16: for a polygon of either winding, push_polygon_from_line returns the
\* polygon as it was when the shrunk polygon has less than a fifth of its
\* area, and the shrunk polygon otherwise
C16_FallbackBelowFifth ==
    (pc = "returned" /\ fIn.fn = "push_polygon_from_line"
        /\ Len(fIn.polygon) >= 3) =>
        fOut.result =
            IF BelowFifth(fIn.polygon, fOut.shrunk) THEN fIn.polygon ELSE fOut.shrunk

\* the same for polygons of positive signed area only
C16_PositiveOnly ==
    (pc = "returned" /\ fIn.fn = "push_polygon_from_line"
        /\ Len(fIn.polygon) >= 3 /\ polygon_area2(fIn.polygon) > 0) =>
        /\ Len(fOut.result) = Len(fIn.polygon)
        /\ fOut.result =
            IF BelowFifth(fIn.polygon, fOut.shrunk) THEN fIn.polygon ELSE fOut.shrunk

----------------------------------------------------------------------------
(* point_gen.rs: the constraint generators *)

RECURSIVE Concat(_)
Concat(ss) == IF ss = <<>> THEN <<>> ELSE Head(ss) \o Concat(Tail(ss))

\* floor(sqrt(len2) / spacing), for spacing > 0
FloorRootDiv(len2, spacing) ==
    CHOOSE k \in 0..len2 : Sq(k * spacing) <= len2 /\ Sq((k + 1) * spacing) > len2

\* lines 151-158: twice the signed area, as the windows and the closing
\* term sum it (a list of one or two vertices gives 0)
signed_area2(boundary_polygon) == ShoelaceFrom(boundary_polygon, 1)

\* line 155: boundary_polygon.last().unwrap() on an empty slice
BoundaryGeneratorsPanics(boundary_polygon) == boundary_polygon = <<>>

\* lines 161-187: the generators of the edge from start to end, an inner and
\* an outer one for each sample point; lengths are in Tenths
EdgeGenerators(start, end, is_ccw, spacing, inner_offset) ==
    LET edge_vec == Sub(end, start)
        len2 == Dot(edge_vec, edge_vec)
        sgn == IF is_ccw THEN 1 ELSE -1
        num_points == IF FloorRootDiv(len2, spacing) < 1 THEN 1
                      ELSE FloorRootDiv(len2, spacing)
        \* start + edge_vec * (j + 0.5) / num_points, for j counted from 1
        point_on_edge(j) ==
            <<DivRound(2 * num_points * start[1] + edge_vec[1] * (2 * j - 1), 2 * num_points),
              DivRound(2 * num_points * start[2] + edge_vec[2] * (2 * j - 1), 2 * num_points)>>
        \* inward_normal * offset
        inward(offset) ==
            <<sgn * RoundDivRoot(-edge_vec[2] * offset, len2),
              sgn * RoundDivRoot(edge_vec[1] * offset, len2)>>
        inner_pos(j) ==
            <<point_on_edge(j)[1] + inward(inner_offset)[1],
              point_on_edge(j)[2] + inward(inner_offset)[2]>>
        outer_pos(j) ==
            <<point_on_edge(j)[1] - inward(BOUNDARY_GENERATOR_OUTER_OFFSET * Tenths)[1],
              point_on_edge(j)[2] - inward(BOUNDARY_GENERATOR_OUTER_OFFSET * Tenths)[2]>>
    IN  IF len2 = 0 THEN <<>>
        ELSE Concat([j \in 1..num_points |-> <<inner_pos(j), outer_pos(j)>>])

\* (mutant of generate_boundary_generators: the polygon taken to be
\* counter-clockwise)
generate_boundary_generatorsCcw(boundary_polygon, spacing, inner_offset) ==
    Concat([i \in 1..Len(boundary_polygon) |->
               EdgeGenerators(boundary_polygon[i],
                              boundary_polygon[(i % Len(boundary_polygon)) + 1],
                              TRUE, spacing, inner_offset)])

\* generate_boundary_generators(boundary_polygon, spacing, inner_offset),
\* where it does not panic
generate_boundary_generators(boundary_polygon, spacing, inner_offset) ==
    LET is_ccw == signed_area2(boundary_polygon) > 0
    IN  Concat([i \in 1..Len(boundary_polygon) |->
                   EdgeGenerators(boundary_polygon[i],
                                  boundary_polygon[Succ(boundary_polygon, i)],
                                  is_ccw, spacing, inner_offset)])

\* (mutant of SegmentGenerators: the two ends of the segment, whatever its
\* length)
SegmentGeneratorsEnds(road_path, i) == <<road_path[i], road_path[i + 1]>>

\* lines 205-231 of generate_road_generators: the pairs of segment i of a
\* path of n points, in Tenths
SegmentGenerators(road_path, i) ==
    LET n == Len(road_path)
        start == road_path[i]
        edge_vec == Sub(road_path[i + 1], start)
        len2 == Dot(edge_vec, edge_vec)
        corner == CORNER_CONSTRAINT_DISTANCE * Tenths
        segment_start == IF i > 1 THEN corner ELSE 0
        cut_off == segment_start + (IF i < n - 1 THEN corner ELSE 0)
        \* ceil(segment_length / spacing) + 1, segment_length being the
        \* edge length less cut_off
        num_pairs ==
            1 + (CHOOSE k \in 1..(len2 + 1) :
                    /\ Sq(k * ROAD_GENERATOR_SPACING * Tenths + cut_off) >= len2
                    /\ k = 1 \/ Sq((k - 1) * ROAD_GENERATOR_SPACING * Tenths + cut_off) < len2)
        \* start + edge_dir * (segment_start + segment_length * t), where
        \* t = j / (num_pairs - 1), for j counted from 0
        along(j) == segment_start * (num_pairs - 1) - cut_off * j
        point_on_edge(j) ==
            <<start[1] + DivRound(edge_vec[1] * j, num_pairs - 1)
                       + RoundDivRoot(edge_vec[1] * along(j), Sq(num_pairs - 1) * len2),
              start[2] + DivRound(edge_vec[2] * j, num_pairs - 1)
                       + RoundDivRoot(edge_vec[2] * along(j), Sq(num_pairs - 1) * len2)>>
        \* perpendicular * offset
        side == <<RoundDivRoot(-edge_vec[2] * ROAD_GENERATOR_OFFSET, len2),
                  RoundDivRoot(edge_vec[1] * ROAD_GENERATOR_OFFSET, len2)>>
    IN  IF len2 = 0 THEN <<>>
        \* segment_length > 0.1
        ELSE IF len2 <= Sq(cut_off + 1) THEN <<>>
        ELSE Concat([k \in 1..num_pairs |->
                        <<(<<point_on_edge(k - 1)[1] + side[1],
                             point_on_edge(k - 1)[2] + side[2]>>),
                          (<<point_on_edge(k - 1)[1] - side[1],
                             point_on_edge(k - 1)[2] - side[2]>>)>>])

\* generate_road_generators(road_path)
generate_road_generators(road_path) ==
    IF Len(road_path) < 2 THEN <<>>
    ELSE Concat([i \in 1..(Len(road_path) - 1) |-> SegmentGenerators(road_path, i)])

----------------------------------------------------------------------------
(* The calls with empty and too-small inputs that are checked *)

\* lists of no, one and two points, and lists whose edges all have length 0
ShortLists ==
    {<<>>, <<<<1, 1>>>>, <<<<0, 0>>, <<3, 3>>>>, <<<<0, 0>>, <<5, 0>>>>,
     <<<<2, 2>>, <<2, 2>>>>, <<<<2, 2>>, <<2, 2>>, <<2, 2>>>>}

TotalCalls ==
    {[fn |-> f, polygon |-> q] :
        f \in {"polygon_area", "polygon_centroid", "vlongest_edge",
               "generate_boundary_generators"},
        q \in ShortLists}
    \cup {[fn |-> "point_in_polygon", polygon |-> q, point |-> pt] :
            q \in ShortLists, pt \in {<<0, 0>>, <<2, 2>>, <<1, 0>>}}
    \cup {[fn |-> "bisect_poly", polygon |-> q, start_idx |-> i, ratio |-> r,
           angle |-> 0, separation |-> w] :
            q \in ShortLists, i \in 1..3, r \in {0, 50}, w \in {0, 2}}
    \cup {[fn |-> "push_polygon_from_line", polygon |-> q, line |-> l, distance2 |-> 2] :
            q \in ShortLists, l \in PushLines}
    \cup {[fn |-> "generate_road_generators", road_path |-> q] : q \in ShortLists}

\* the call panics
Panics(call) ==
    /\ call.fn = "generate_boundary_generators"
    /\ BoundaryGeneratorsPanics(call.polygon)

\* the value the call returns, when it returns
Returns(call) ==
    CASE call.fn = "polygon_area" -> polygon_area2(call.polygon)
      [] call.fn = "polygon_centroid" ->
            polygon_centroid(call.polygon, polygon_area2(call.polygon))
      [] call.fn = "point_in_polygon" -> point_in_polygon(call.point, call.polygon)
      [] call.fn = "vlongest_edge" -> vlongest_edge(call.polygon)
      [] call.fn = "bisect_poly" ->
            bisect_poly(call.polygon, call.start_idx, call.ratio, call.angle,
                        call.separation)
      [] call.fn = "push_polygon_from_line" ->
            push_polygon_from_line(call.polygon, call.line, call.distance2)
      [] call.fn = "generate_boundary_generators" ->
            generate_boundary_generators(call.polygon,
                                         BOUNDARY_GENERATOR_SPACING * Tenths,
                                         BOUNDARY_GENERATOR_INNER_OFFSET * Tenths)
      [] call.fn = "generate_road_generators" ->
            generate_road_generators(call.road_path)

\* a call of one of the functions, or a top-level call of subdivide_to_plots
TInit ==
    /\ \/ /\ pc = "call"
          /\ fIn \in TotalCalls
          /\ fOut = <<>>
          /\ SubIdle
       \/ /\ pc = "subdivide"
          /\ sIn \in {c \in SCalls : c.polygon \in ShortLists}
          /\ sStack = <<Frame(sIn.polygon, 0, sIn.alley_chance, sIn.alley_width, 0)>>
          /\ sDraws = 0
          /\ sOut = <<>>
          /\ sLast = <<>>
          /\ sDeepest = [call |-> 0, cut |-> -1]
          /\ sCut = <<>>
          /\ CallIdle
    /\ VpolyIdle
    /\ RelaxIdle
    /\ BisectIdle
    /\ TownIdle
    /\ InputIdle

\* the call returns
TotalReturn ==
    /\ pc = "call"
    /\ fIn \in TotalCalls
    /\ ~Panics(fIn)
    /\ fOut' = Returns(fIn)
    /\ pc' = "returned"
    /\ UNCHANGED <<fIn, vpolyVars, relaxVars, bisectVars, subVars, townVars, inputVars>>

\* the call panics
TotalPanic ==
    /\ pc = "call"
    /\ fIn \in TotalCalls
    /\ Panics(fIn)
    /\ pc' = "panicked"
    /\ UNCHANGED <<fIn, fOut, vpolyVars, relaxVars, bisectVars, subVars, townVars, inputVars>>

TNext == TotalReturn \/ TotalPanic \/ SubReturnAtOnce \/ SubCut

SpecTotal == TInit /\ [][TNext]_vars

\* C17: given a list of fewer than 3 points, or one whose edges have length
\* 0, no function of the core panics; each returns 0, nothing or the list
\* it was given where the list is shorter than 3 (2 for vlongest_edge)
C17_Total ==
    /\ pc # "panicked"
    /\ (pc = "returned" /\ fIn.fn = "generate_road_generators"
            /\ Len(fIn.road_path) < 2) => fOut = <<>>
    /\ (pc = "returned" /\ fIn.fn # "generate_road_generators"
            /\ Len(fIn.polygon) < 3) =>
          CASE fIn.fn = "polygon_area" -> fOut = 0
            [] fIn.fn = "polygon_centroid" -> fOut = <<0, 0>>
            [] fIn.fn = "point_in_polygon" -> fOut = FALSE
            [] fIn.fn = "vlongest_edge" -> Len(fIn.polygon) < 2 => fOut = 0
            [] fIn.fn = "bisect_poly" -> fOut = <<fIn.polygon>>
            [] fIn.fn = "push_polygon_from_line" -> fOut = fIn.polygon
            [] fIn.fn = "generate_boundary_generators" -> TRUE
    /\ pc = "subdivided" => sOut = <<sIn.polygon>>

\* the same without generate_boundary_generators on an empty list
C17_TotalButEmptyBoundary ==
    \/ (pc = "panicked" /\ fIn.fn = "generate_boundary_generators" /\ fIn.polygon = <<>>)
    \/ C17_Total

----------------------------------------------------------------------------
(* mesh/mod.rs: SkeletonData::is_valid *)

\* (mutant of IndexInBounds: the check dropped)
IndexInBoundsAlways(points, point_idx) == TRUE

\* lines 153-155: point_idx >= self.points.len() returns false; indices
\* count from 0
IndexInBounds(points, point_idx) == point_idx < Len(points)

\* lines 158-160: self.points[idx] panics when idx is out of bounds
CellReadsOutOfBounds(points, cell) ==
    \E k \in 1..Len(cell) : cell[k] >= Len(points)

\* lines 158-160: the polygon of a cell
CellPoints(points, cell) == [k \in 1..Len(cell) |-> points[cell[k] + 1]]

\* lines 147-166: the loop over the cells, from cell i on; "pass" when no
\* cell makes it return
RECURSIVE CellsCheckFrom(_, _, _)
CellsCheckFrom(points, cells, i) ==
    IF i > Len(cells) THEN "pass"
    ELSE IF Len(cells[i]) < 3 THEN "false"
    ELSE IF \E k \in 1..Len(cells[i]) : ~IndexInBounds(points, cells[i][k])
         THEN "false"
    ELSE IF CellReadsOutOfBounds(points, cells[i]) THEN "panic"
    \* area.abs() < f32::EPSILON
    ELSE IF polygon_area2(CellPoints(points, cells[i])) = 0 THEN "false"
    ELSE CellsCheckFrom(points, cells, i + 1)

\* lines 169-178: some two points are closer than 1e-4
DuplicatePoints(points) ==
    \E i \in 1..Len(points) : \E j \in (i + 1)..Len(points) :
        Dist2(points[i], points[j]) = 0

\* SkeletonData::is_valid: "true", "false" or "panic"
is_valid(points, cells) ==
    IF points = <<>> \/ cells = <<>> THEN "false"
    ELSE With(CellsCheckFrom(points, cells, 1), LAMBDA checked :
             IF checked # "pass" THEN checked
             ELSE IF DuplicatePoints(points) THEN "false"
             ELSE "true")

\* no points, a triangle, a triangle with a point on one of its edges, and
\* a triangle with one point twice
ValidPoints ==
    {<<>>,
     <<<<0, 0>>, <<4, 0>>, <<0, 4>>>>,
     <<<<0, 0>>, <<4, 0>>, <<0, 4>>, <<2, 0>>>>,
     <<<<0, 0>>, <<4, 0>>, <<0, 4>>, <<4, 0>>>>,
     <<<<0, 0>>, <<4, 0>>, <<0, 4>>, <<4, 4>>>>}

\* cells in either winding, short, flat, with an index twice, and with
\* indices that are out of bounds for some or all of the lists of points
ValidCells ==
    {<<0, 1, 2>>, <<2, 1, 0>>, <<0, 1>>, <<>>, <<0, 3, 1>>, <<0, 1, 3, 2>>,
     <<0, 0, 1>>, <<1, 2, 3>>, <<0, 1, 4>>, <<5, 1, 2>>}

ValidCalls ==
    {[fn |-> "is_valid", points |-> pts, cells |-> cs] :
        pts \in ValidPoints,
        cs \in {<<>>} \cup {<<c>> : c \in ValidCells}
               \cup {<<c, d>> : c \in {<<0, 1, 2>>, <<1, 2, 3>>}, d \in ValidCells}}

ValidInit ==
    /\ pc = "call"
    /\ fIn \in ValidCalls
    /\ fOut = <<>>
    /\ VpolyIdle
    /\ RelaxIdle
    /\ BisectIdle
    /\ SubIdle
    /\ TownIdle
    /\ InputIdle

IsValidCall ==
    /\ pc = "call"
    /\ fIn.fn = "is_valid"
    /\ fOut' = is_valid(fIn.points, fIn.cells)
    /\ pc' = "returned"
    /\ UNCHANGED <<fIn, vpolyVars, relaxVars, bisectVars, subVars, townVars, inputVars>>

ValidNext == IsValidCall

SpecValid == ValidInit /\ [][ValidNext]_vars

\* C18: is_valid returns true exactly when there are points and cells, every
\* cell has at least 3 indices, all below the number of points, the polygon
\* of every cell has an area that is not negligible, and no two points
\* coincide; it returns false, without reading out of bounds, otherwise
C18_IsValidIff ==
    (pc = "returned" /\ fIn.fn = "is_valid") =>
        /\ fOut \in {"true", "false"}
        /\ fOut = "true" <=>
            /\ fIn.points # <<>>
            /\ fIn.cells # <<>>
            /\ \A i \in 1..Len(fIn.cells) :
                  /\ Len(fIn.cells[i]) >= 3
                  /\ \A k \in 1..Len(fIn.cells[i]) : fIn.cells[i][k] < Len(fIn.points)
                  /\ polygon_area2([k \in 1..Len(fIn.cells[i]) |->
                                       fIn.points[fIn.cells[i][k] + 1]]) # 0
            /\ \A i, j \in 1..Len(fIn.points) :
                  i # j => fIn.points[i] # fIn.points[j]

\* a cell with an index out of bounds after a cell that is in order: false
C18_Witness ==
    /\ pc = "returned"
    /\ fIn.fn = "is_valid"
    /\ Len(fIn.cells) = 2
    /\ \E k \in 1..Len(fIn.cells[2]) : fIn.cells[2][k] >= Len(fIn.points)
    /\ \A k \in 1..Len(fIn.cells[1]) : fIn.cells[1][k] < Len(fIn.points)
    /\ fOut = "false"

----------------------------------------------------------------------------
(* mesh/town.rs: handle_regeneration and generate_town.  Lengths are in    *)
(* Tenths here, as they are for the road generators.                       *)

ROAD_WIDTH == 4

\* u64 scaled down: seeds are counted modulo SeedModulus
SeedModulus == 8

\* (mutant of BlockSeed: one seed for every block)
BlockSeedShared(seed, block_idx) == seed

\* line 100: seed.wrapping_add(block_idx as u64)
BlockSeed(seed, block_idx) == (seed + block_idx) % SeedModulus

\* inner_faces() of the triangulation of P in one enumeration order.  Where
\* four vertices lie on an empty circle DelaunayFaces holds both ways to cut
\* the quadrilateral: a face is taken unless a face taken before it has one
\* of its directed edges.
RECURSIVE TileFrom(_, _)
TileFrom(faces, acc) ==
    IF faces = <<>> THEN acc
    ELSE TileFrom(Tail(faces),
             IF \E k \in 1..Len(acc) :
                    adjacent_edges(Head(faces)) \cap adjacent_edges(acc[k]) # {}
             THEN acc ELSE Append(acc, Head(faces)))

inner_faces(P) == TileFrom(SeqOfSet(DelaunayFaces(P)), <<>>)

\* point_gen.rs lines 38-116: prelax, as a function of its arguments
RECURSIVE prelax(_, _, _, _, _)
prelax(regular_points, fixed_points, steps, width, height) ==
    IF steps = 0 THEN RelaxResult(regular_points, fixed_points)
    ELSE prelax(RelaxIteration(regular_points, fixed_points,
                               inner_faces(Range(regular_points \o fixed_points)),
                               width, height),
                fixed_points, steps - 1, width, height)

\* point_gen.rs lines 13-35: pgen.  Point i lies at angle i / 2 +- 0.3 and at
\* radius 3 i +- 0.6 (SPIRAL_SPREAD = 3): point 0 within 0.6 of the origin,
\* point 1 between 2.4 and 3.6 away at an angle between 0.2 and 0.8.  Which
\* point of the range a seed gives is read from a table.
PgenTable ==
    <<<<<<2, -1>>, <<-5, 1>>, <<-3, 0>>, <<4, 1>>>>,
      <<<<27, 14>>, <<22, 19>>, <<30, 9>>, <<24, 22>>>>>>

pgen(num_points, seed) ==
    [i \in 1..num_points |-> PgenTable[i][(seed % Len(PgenTable[i])) + 1]]

\* point_gen.rs lines 120-136: generate_boundary_polygon.  Vertex i lies at
\* angle i / num_vertices of the full turn and between 0.8 and 1.2 times
\* base_radius away; where in that range is read from StdRng.  The cosines
\* and sines of the quarter turns are exact, and only these are modelled.
QuarterTurn(i) == <<<<1, 0>>, <<0, 1>>, <<-1, 0>>, <<0, -1>>>>[(i % 4) + 1]

generate_boundary_polygon(num_vertices, base_radius, seed) ==
    [i \in 1..num_vertices |->
        LET \* base_radius * (1 + distance_variation), the variation being
            \* -0.2, 0 or 0.1 for the draws 0, 1/2 and 3/4
            radius == DivRound(base_radius * (8 + StdRng(seed, i)), 10)
        IN  <<QuarterTurn(i - 1)[1] * radius, QuarterTurn(i - 1)[2] * radius>>]

\* lines 186-194
rebuild_boundary_with_offsets(vertex_count, scale, seed, offsets) ==
    LET base == generate_boundary_polygon(vertex_count, scale, seed)
    IN  [i \in 1..Len(base) |->
            IF i <= Len(offsets) THEN Add(base[i], offsets[i]) ELSE base[i]]

\* lines 224-243, 255-274, 294-313 and 338-357: the generators of the whole
\* pipeline, the regular ones relaxed between the road and the boundary ones
all_generators(data, params, seed) ==
    LET boundary_generators ==
            generate_boundary_generators(data.boundary_polygon, params.boundary_spacing,
                                         params.boundary_inner_offset)
        road_generators == generate_road_generators(data.road_path)
        regular_generators == pgen(params.generator_count, seed)
        fixed_generators == road_generators \o boundary_generators
    IN  prelax(regular_generators, fixed_generators, 4, CANVAS_WIDTH, CANVAS_HEIGHT)

\* lines 245-248, 279-281, 286-288, 316-318 and 359-362: the diagram of the
\* generators replaces points and cells.  cellGen is not a field of
\* SkeletonData: it keeps, for the statements about the cells, the index in
\* generator_points of the generator each cell was built for.
WithVoronoi(data, generator_points, params) ==
    LET voronoi_data == vpoly(generator_points, data.boundary_polygon,
                              params.circumcenter_merge_threshold,
                              inner_faces(Range(generator_points)))
    IN  [data EXCEPT !.generator_points = generator_points,
                     !.points = voronoi_data.points,
                     !.cells = voronoi_data.cells,
                     !.cellGen = voronoi_data.cellGen]

\* lines 323-336: the boundary rebuilt from the seed and the user's offsets
WithBoundary(data, params, seed) ==
    LET offsets == IF Len(data.boundary_polygon) # params.boundary_vertex_count
                   THEN [i \in 1..params.boundary_vertex_count |-> <<0, 0>>]
                   ELSE data.boundary_vertex_offsets
    IN  [data EXCEPT !.boundary_vertex_offsets = offsets,
                     !.boundary_polygon =
                         rebuild_boundary_with_offsets(params.boundary_vertex_count,
                                                       params.boundary_scale, seed, offsets)]

\* (mutant of UserEditKeeps: every event regenerates)
UserEditKeepsNothing(event) == FALSE

\* lines 254 and 284: `if !event.user_edit` guards the regeneration
UserEditKeeps(event) == event.user_edit

\* (mutant of SeedChanged: every event counts as a new seed)
SeedChangedAlways(seed, event) == TRUE

\* line 218, read before the assignment of line 219
SeedChanged(seed, event) == seed # event.seed

\* lines 218-365: skeleton_data after the event, seed_changed being
\* seed.0 != event.seed before the assignment of line 219
Regenerated(data, params, mode, edit, event, seed_changed) ==
    IF mode = "Auto" /\ seed_changed
    THEN WithVoronoi(data, all_generators(data, params, event.seed), params)
    ELSE IF mode = "Manual"
    THEN CASE edit = "Generators" ->
                WithVoronoi(data,
                            IF UserEditKeeps(event) THEN data.generator_points
                            ELSE all_generators(data, params, event.seed),
                            params)
           [] edit = "Circumcenters" ->
                IF UserEditKeeps(event) THEN data
                ELSE WithVoronoi(data, data.generator_points, params)
           [] edit = "Roads" ->
                WithVoronoi(data, all_generators(data, params, event.seed), params)
           [] edit = "Boundary" ->
                With(WithBoundary(data, params, event.seed), LAMBDA rebuilt :
                    WithVoronoi(rebuilt, all_generators(rebuilt, params, event.seed),
                                params))
    ELSE data

\* generate_town lines 58-64; as in vpoly above, a cell holds the positions
\* of its points in `points` counted from 1
polygonal_regions(data) ==
    [c \in 1..Len(data.cells) |->
        [k \in 1..Len(data.cells[c]) |-> data.points[data.cells[c][k]]]]

\* the segment from road_start to road_end as a line: its midpoint, its
\* direction and the square of half its length (exact where the segment's
\* components are even)
SegmentLine(road_start, road_end) ==
    [cut |-> <<(road_start[1] + road_end[1]) \div 2, (road_start[2] + road_end[2]) \div 2>>,
     dir |-> Reduce(Sub(road_end, road_start)),
     ext2 |-> Dist2(road_start, road_end) \div 4]

\* lines 69-81: a region pushed from segment j of the road and the ones
\* after it; a segment is used when it is longer than 0.1
RECURSIVE PushedFromRoad(_, _, _)
PushedFromRoad(region, road_path, j) ==
    IF j >= Len(road_path) THEN region
    ELSE PushedFromRoad(
             IF Dist2(road_path[j], road_path[j + 1]) > 1
             THEN push_polygon_from_line(region,
                                         SegmentLine(road_path[j], road_path[j + 1]),
                                         ROAD_WIDTH * Tenths)
             ELSE region,
             road_path, j + 1)

\* (mutant of road_generator_count: one road generator for every cell)
road_generator_countOfCells(data) == Len(data.cells)

\* line 67
road_generator_count(data) == Len(generate_road_generators(data.road_path))

\* line 68: the regions that are pushed are the first ones
PushedCount(data) ==
    IF Len(data.cells) < road_generator_count(data) THEN Len(data.cells)
    ELSE road_generator_count(data)

\* lines 58-82: the regions the blocks are made of
ShrunkRegions(data) ==
    [c \in 1..Len(data.cells) |->
        IF c <= PushedCount(data)
        THEN PushedFromRoad(polygonal_regions(data)[c], data.road_path, 1)
        ELSE polygonal_regions(data)[c]]

\* subdivision.rs lines 12-99 as a function of the polygon, the parameters
\* and the seed of the generator: [buildings, drawn], drawn being the number
\* of values read from the generator when the call returns
RECURSIVE PlotsFrom(_, _, _, _, _, _), HalvesFrom(_, _, _, _, _, _, _)
PlotsFrom(call, polygon, depth, alley_chance, alley_width, drawn) ==
    IF ReturnsAtOnce(polygon, depth, call.min_sq, call.max_recursion_depth)
    THEN [buildings |-> <<polygon>>, drawn |-> drawn]
    ELSE LET chance == DecayedChance(alley_chance, depth, call.max_recursion_depth)
             width == IF AlleyDrawn(StdRng(call.seed, drawn + 3), chance)
                      THEN alley_width ELSE 0
         IN  With(bisect_poly(polygon, vlongest_edge(polygon),
                              CutRatio(call.grid_chaos, StdRng(call.seed, drawn + 1)),
                              AngleOffset(polygon, call.min_sq, call.grid_chaos,
                                          StdRng(call.seed, drawn + 2)),
                              width), LAMBDA halves :
                 IF SplitFailed(halves, polygon)
                 THEN [buildings |-> <<polygon>>, drawn |-> drawn + 3]
                 ELSE HalvesFrom(call, halves, depth, chance, width, drawn + 3, <<>>))

HalvesFrom(call, halves, depth, alley_chance, alley_width, drawn, buildings) ==
    IF halves = <<>> THEN [buildings |-> buildings, drawn |-> drawn]
    ELSE IF FinalPlot(Head(halves), call.min_sq, call.size_chaos,
                      StdRng(call.seed, drawn + 1))
    THEN HalvesFrom(call, Tail(halves), depth, alley_chance, alley_width, drawn + 2,
                    IF KeepsPlot(StdRng(call.seed, drawn + 2), call.empty_prob)
                    THEN Append(buildings, Head(halves)) ELSE buildings)
    ELSE With(PlotsFrom(call, Head(halves), ChildDepth(depth), alley_chance,
                        alley_width, drawn + 1), LAMBDA sub :
             HalvesFrom(call, Tail(halves), depth, alley_chance, alley_width,
                        sub.drawn, buildings \o sub.buildings))

\* town.rs lines 100-112: the call generate_town makes for a block
BlockCall(polygon, params, block_seed) ==
    [polygon |-> polygon, min_sq |-> params.min_sq, grid_chaos |-> params.grid_chaos,
     size_chaos |-> params.size_chaos, empty_prob |-> params.empty_prob,
     max_recursion_depth |-> params.max_recursion_depth,
     alley_chance |-> params.alley_chance, alley_width |-> params.alley_width,
     seed |-> block_seed, unit |-> Tenths]

----------------------------------------------------------------------------
(* The events that are checked.  TLC's integers do not reach a settlement  *)
(* of the default radius (the in-circle test is of the fourth degree), so  *)
(* the boundary is one its vertices were dragged to in Boundary mode, a    *)
(* few metres across, and the events are handled in the other edit modes.  *)

\* greatest number of events handled in a run
MaxEvents == 2

TownBoundary == <<<<-20, -20>>, <<25, -15>>, <<22, 24>>, <<-18, 20>>>>

TownRoad == <<<<-6, 0>>, <<6, 0>>>>

\* the sliders' values: boundary_spacing 12, boundary_inner_offset 1,
\* circumcenter_merge_threshold 0.1, min_sq 10 (1000 square Tenths),
\* grid_chaos 0, size_chaos 1, empty_prob 0.5, alley_width 0.8,
\* alley_chance 1/2, max_recursion_depth 2, generator_count 0 or 1
TownParams ==
    {[generator_count |-> n, boundary_vertex_count |-> 4,
      boundary_scale |-> 75 * Tenths,
      boundary_spacing |-> BOUNDARY_GENERATOR_SPACING * Tenths,
      boundary_inner_offset |-> BOUNDARY_GENERATOR_INNER_OFFSET * Tenths,
      circumcenter_merge_threshold |-> 1,
      min_sq |-> 1000, grid_chaos |-> 0, size_chaos |-> 1, empty_prob |-> 2,
      max_recursion_depth |-> 2, alley_chance |-> <<1, 2>>, alley_width |-> 8] :
        n \in {0, 1}}

\* the events: of the seed in use or of another one, written by the user's
\* edit or by the panel
RegenerateEvents == [seed : {0, 3}, user_edit : BOOLEAN]

\* SkeletonData as the pipeline leaves it for a road path
Generated(road_path, params, seed0) ==
    With([generator_points |-> <<>>, points |-> <<>>, cells |-> <<>>,
          road_path |-> road_path, boundary_polygon |-> TownBoundary,
          boundary_vertex_offsets |-> [i \in 1..Len(TownBoundary) |-> <<0, 0>>],
          cellGen |-> <<>>], LAMBDA data :
        WithVoronoi(data, all_generators(data, params, seed0), params))

\* interaction.rs lines 296-298: a generator dragged by off
GeneratorDragged(data, point_idx, off) ==
    [data EXCEPT !.generator_points[point_idx] = Add(@, off)]

\* interaction.rs lines 299-301: a circumcenter dragged by off
CircumcenterDragged(data, point_idx, off) ==
    [data EXCEPT !.points[point_idx] = Add(@, off)]

\* generators on a grid: the two in the middle get square cells of 10.24
\* square units, which subdivide_to_plots cuts
TownGrid ==
    <<<<-16, 0>>, <<16, 0>>, <<-48, -32>>, <<-16, -32>>, <<16, -32>>, <<48, -32>>,
      <<-48, 0>>, <<48, 0>>, <<-48, 32>>, <<-16, 32>>, <<16, 32>>, <<48, 32>>>>

\* interaction.rs lines 177-183, 234-237 and 296-298: the generators
\* deleted, added and dragged until they are the ones of the grid
GeneratorsEdited(data) == [data EXCEPT !.generator_points = TownGrid]

\* the data an event finds: as generated, with or without a road, or with
\* the user's edit that wrote the event
StartData(params) ==
    {Generated(<<>>, params, 0), Generated(TownRoad, params, 0),
     GeneratorDragged(Generated(TownRoad, params, 0), 1, <<3, -2>>),
     CircumcenterDragged(Generated(TownRoad, params, 0), 3, <<2, 1>>),
     GeneratorsEdited(Generated(<<>>, params, 0))}

TownInit ==
    /\ pc = "idle"
    /\ GenerationMode \in {"Auto", "Manual"}
    /\ EditMode \in {"Roads", "Generators", "Circumcenters"}
    /\ Seed = 0
    /\ Params \in TownParams
    /\ SkeletonData \in StartData(Params)
    /\ handled = <<>>
    /\ town = <<>>
    /\ events = 0
    /\ InputIdle
    /\ CallIdle
    /\ VpolyIdle
    /\ RelaxIdle
    /\ BisectIdle
    /\ SubIdle

\* the footprints subdivide_to_plots returns for a polygon, the parameters
\* and a seed
Footprints(polygon, params, block_seed) ==
    PlotsFrom(BlockCall(polygon, params, block_seed), polygon, 0,
              params.alley_chance, params.alley_width, 0).buildings

\* generate_town lines 41-184 run to its end: every block with its buildings
WholeTown(seed, data) ==
    [seed |-> seed, regions |-> ShrunkRegions(data),
     block_idx |-> Len(data.cells),
     buildings |-> [i \in 1..Len(data.cells) |->
                       Footprints(ShrunkRegions(data)[i], Params, BlockSeed(seed, i - 1))],
     pushed |-> PushedCount(data), road_path |-> data.road_path]

\* generate_town lines 41-82: the town up to its first block
TownStart(seed, data) ==
    [seed |-> seed, regions |-> ShrunkRegions(data), block_idx |-> 0,
     buildings |-> <<>>, pushed |-> PushedCount(data), road_path |-> data.road_path]

\* handle_regeneration lines 218-361: what the event makes of skeleton_data
RegeneratedFor(event, skeleton_data) ==
    Regenerated(skeleton_data, Params, GenerationMode, EditMode, event,
                SeedChanged(Seed, event))

\* handle_regeneration lines 209-367 for one event that finds skeleton_data
\* and leaves data, generate_town having built `built` and going on from
\* `next`.  Neither SelectedPoint nor DragState is among the resources of
\* the system.
Handled(event, skeleton_data, data, built, next) ==
    /\ Seed' = event.seed
    /\ SkeletonData' = data
    /\ handled' = [event |-> event, generation_mode |-> GenerationMode,
                   edit_mode |-> EditMode,
                   seed_changed |-> SeedChanged(Seed, event),
                   seed |-> Seed, before |-> skeleton_data]
    /\ IF data.points = <<>>
       THEN town' = <<>> /\ pc' = "idle"
       ELSE town' = built /\ pc' = next
    /\ events' = events + 1

\* an event written by the panel or by an edit made before
HandleRegeneration ==
    /\ pc = "idle"
    /\ events < MaxEvents
    /\ \E event \in RegenerateEvents :
           \E data \in {RegeneratedFor(event, SkeletonData)} :
               Handled(event, SkeletonData, data, TownStart(event.seed, data), "block")
    /\ UNCHANGED <<GenerationMode, EditMode, Params, callVars, inputVars, vpolyVars,
                   relaxVars, bisectVars, subVars>>

\* generate_town lines 85-112: the next block, up to the call of
\* subdivide_to_plots with a generator of its own
TownBlock ==
    /\ pc = "block"
    /\ town.block_idx < Len(town.regions)
    /\ sIn' = BlockCall(town.regions[town.block_idx + 1], Params,
                        BlockSeed(town.seed, town.block_idx))
    /\ sStack' = <<Frame(sIn'.polygon, 0, sIn'.alley_chance, sIn'.alley_width, 0)>>
    /\ sDraws' = 0
    /\ sOut' = <<>>
    /\ sLast' = <<>>
    /\ sDeepest' = [call |-> 0, cut |-> -1]
    /\ sCut' = <<>>
    /\ pc' = "subdivide"
    /\ UNCHANGED <<vpolyVars, relaxVars, bisectVars, restVars>>

\* generate_town lines 115-183: the buildings of the block are spawned
TownBuildings ==
    /\ pc = "subdivided"
    /\ town # <<>>
    /\ town' = [town EXCEPT !.buildings = Append(@, sOut), !.block_idx = @ + 1]
    /\ pc' = "block"
    /\ UNCHANGED <<GenerationMode, EditMode, Seed, Params, SkeletonData, handled,
                   events, callVars, inputVars, vpolyVars, relaxVars, bisectVars,
                   subVars>>

\* generate_town line 184: every block is done
TownReturn ==
    /\ pc = "block"
    /\ town.block_idx = Len(town.regions)
    /\ pc' = "idle"
    /\ UNCHANGED <<vpolyVars, relaxVars, bisectVars, subVars, restVars>>

TownNext ==
    \/ HandleRegeneration
    \/ TownBlock
    \/ SNext
    \/ TownBuildings
    \/ TownReturn

SpecTown == TownInit /\ [][TownNext]_vars

----------------------------------------------------------------------------
(* interaction.rs: handle_mouse_interaction, and key_input of ui/mod.rs.   *)
(* An action is a frame in which one key or button changed.  The event a   *)
(* frame writes is read by handle_regeneration before                      *)
(* handle_mouse_interaction runs again: it is handled in the same action,  *)
(* generate_town run to its end.                                           *)

\* line 97, in metres
SELECTION_RADIUS == 4

\* line 55; gizmos_visible is set to generation_mode == Manual whenever Tab
\* changes the mode (ui/mod.rs line 58)
InEditMode == GenerationMode = "Manual"

\* lines 62-67
NextEditMode(edit_mode) ==
    CASE edit_mode = "Boundary" -> "Roads"
      [] edit_mode = "Roads" -> "Generators"
      [] edit_mode = "Generators" -> "Circumcenters"
      [] edit_mode = "Circumcenters" -> "Boundary"

\* lines 77-82
PrevEditMode(edit_mode) ==
    CASE edit_mode = "Boundary" -> "Circumcenters"
      [] edit_mode = "Circumcenters" -> "Generators"
      [] edit_mode = "Generators" -> "Roads"
      [] edit_mode = "Roads" -> "Boundary"

\* lines 103-164: the list of the edit mode
EditedList(data, edit_mode) ==
    CASE edit_mode = "Generators" -> data.generator_points
      [] edit_mode = "Circumcenters" -> data.points
      [] edit_mode = "Roads" -> data.road_path
      [] edit_mode = "Boundary" -> data.boundary_polygon

\* lines 103-164: the point of the list nearest to the cursor within the
\* selection radius, the first of them where several are as near
closest_point(list, world_pos) ==
    LET near == {i \in 1..Len(list) :
                    Dist2(list[i], world_pos) <= Sq(SELECTION_RADIUS * Tenths)}
        nearest == {i \in near :
                       \A k \in near :
                           Dist2(list[i], world_pos) <= Dist2(list[k], world_pos)}
    IN  IF near = {} THEN <<>> ELSE <<MinOf(nearest)>>

\* Vec::remove(index) for an index in bounds
Removed(list, i) == SubSeqOrEmpty(list, 1, i - 1) \o SubSeqOrEmpty(list, i + 1, Len(list))

\* what a frame leaves: skeleton_data, selected_point and drag_state, whether
\* a RegenerateEvent was written, and whether the frame panicked on an index
\* out of bounds (Vec::remove and IndexMut panic then)
Left(data, selected_point, drag_state, writes) ==
    [skeleton_data |-> data, selected_point |-> selected_point,
     drag_state |-> drag_state, writes |-> writes, panics |-> FALSE]

Panicked(data, selected_point, drag_state) ==
    [skeleton_data |-> data, selected_point |-> selected_point,
     drag_state |-> drag_state, writes |-> FALSE, panics |-> TRUE]

NotDragging(drag_state) == [drag_state EXCEPT !.dragging_point_index = <<>>]

\* the bounds check of Vec::remove and of list[point_idx]
InBounds(list, point_idx) == point_idx \in 1..Len(list)

\* lines 174-209: Delete or X
DeletePressed(data, edit_mode, selected_point, drag_state) ==
    IF selected_point # <<>>
    THEN CASE edit_mode = "Generators" ->
                IF InBounds(data.generator_points, selected_point[1])
                THEN Left([data EXCEPT !.generator_points = Removed(@, selected_point[1])],
                          <<>>, NotDragging(drag_state), TRUE)
                ELSE Panicked(data, selected_point, drag_state)
           [] edit_mode = "Roads" ->
                IF InBounds(data.road_path, selected_point[1])
                THEN Left([data EXCEPT !.road_path = Removed(@, selected_point[1])],
                          <<>>, NotDragging(drag_state), TRUE)
                ELSE Panicked(data, selected_point, drag_state)
           [] OTHER -> Left(data, selected_point, drag_state, FALSE)
    ELSE IF edit_mode = "Roads"
    THEN Left([data EXCEPT !.road_path = <<>>], <<>>, NotDragging(drag_state), TRUE)
    ELSE Left(data, selected_point, drag_state, FALSE)

\* lines 212-228: Backspace
BackspacePressed(data, edit_mode, selected_point, drag_state) ==
    IF edit_mode = "Roads" /\ data.road_path # <<>>
    THEN LET popped == SubSeqOrEmpty(data.road_path, 1, Len(data.road_path) - 1)
             kept(index) == IF index # <<>> /\ index[1] > Len(popped) THEN <<>> ELSE index
         IN  Left([data EXCEPT !.road_path = popped], kept(selected_point),
                  [drag_state EXCEPT !.dragging_point_index = kept(@)], TRUE)
    ELSE Left(data, selected_point, drag_state, FALSE)

\* lines 231-252: the right button pressed at world_pos
RightPressed(data, edit_mode, selected_point, drag_state, world_pos) ==
    CASE edit_mode = "Generators" ->
            Left([data EXCEPT !.generator_points = Append(@, world_pos)],
                 <<Len(data.generator_points) + 1>>, drag_state, TRUE)
      [] edit_mode = "Roads" ->
            Left([data EXCEPT !.road_path = Append(@, world_pos)],
                 <<Len(data.road_path) + 1>>, drag_state, TRUE)
      [] OTHER -> Left(data, selected_point, drag_state, FALSE)

\* lines 256-277: the left button pressed at world_pos
LeftPressed(data, edit_mode, selected_point, drag_state, world_pos) ==
    LET list == EditedList(data, edit_mode)
        closest == closest_point(list, world_pos)
    IN  IF closest # <<>>
        THEN Left(data, closest,
                  [dragging_point_index |-> closest,
                   drag_offset |-> Sub(world_pos, list[closest[1]])], FALSE)
        ELSE Left(data, <<>>, drag_state, FALSE)

\* lines 278-285: the left button released
LeftReleased(data, edit_mode, selected_point, drag_state) ==
    IF drag_state.dragging_point_index # <<>>
    THEN Left(data, selected_point, NotDragging(drag_state), TRUE)
    ELSE Left(data, selected_point, drag_state, FALSE)

\* lines 286-320: the left button held with the cursor at world_pos
LeftHeldAt(data, edit_mode, selected_point, drag_state, world_pos, params, seed) ==
    IF drag_state.dragging_point_index = <<>>
    THEN Left(data, selected_point, drag_state, FALSE)
    ELSE LET point_idx == drag_state.dragging_point_index[1]
             new_pos == Sub(world_pos, drag_state.drag_offset)
         IN  CASE edit_mode = "Boundary" ->
                    LET base_polygon ==
                            generate_boundary_polygon(params.boundary_vertex_count,
                                                      params.boundary_scale, seed)
                        with_offset ==
                            IF /\ point_idx <= Len(base_polygon)
                               /\ point_idx <= Len(data.boundary_vertex_offsets)
                            THEN [data EXCEPT !.boundary_vertex_offsets[point_idx] =
                                                  Sub(new_pos, base_polygon[point_idx])]
                            ELSE data
                    IN  Left(IF point_idx <= Len(data.boundary_polygon)
                             THEN [with_offset EXCEPT !.boundary_polygon[point_idx] = new_pos]
                             ELSE with_offset,
                             selected_point, drag_state, FALSE)
               [] OTHER ->
                    IF ~InBounds(EditedList(data, edit_mode), point_idx)
                    THEN Panicked(data, selected_point, drag_state)
                    ELSE Left(CASE edit_mode = "Generators" ->
                                      [data EXCEPT !.generator_points[point_idx] = new_pos]
                                [] edit_mode = "Circumcenters" ->
                                      [data EXCEPT !.points[point_idx] = new_pos]
                                [] edit_mode = "Roads" ->
                                      [data EXCEPT !.road_path[point_idx] = new_pos],
                              selected_point, drag_state, FALSE)

----------------------------------------------------------------------------
(* The frames that are checked.  They start in any of the modes, which     *)
(* Tab, E and Q lead to from the modes at start.  As for the events above, *)
(* nothing is pressed and no event of the panel is handled while the       *)
(* boundary is being edited, an event rebuilding the boundary at its       *)
(* default radius.                                                         *)

\* greatest number of frames with a key or a button of the mouse
MaxInputs == 3

\* where the cursor is: at either end of TownRoad
CursorPositions == {<<-6, 0>>, <<6, 0>>}

\* the sliders' values: one regular generator, and min_sq at the 25 of its
\* upper end, so that no cell of a town this small is cut
EditParams ==
    {[params EXCEPT !.min_sq = 2500] :
        params \in {given \in TownParams : given.generator_count = 1}}

\* the events of the panel (ui/mod.rs lines 134, 162, 300 and 453)
PanelEvents == {event \in RegenerateEvents : ~event.user_edit}

EditInit ==
    /\ pc = "idle"
    /\ GenerationMode \in {"Auto", "Manual"}
    /\ EditMode \in {"Boundary", "Roads", "Generators", "Circumcenters"}
    /\ Seed = 0
    /\ Params \in EditParams
    /\ SkeletonData = Generated(TownRoad, Params, 0)
    /\ handled = <<>>
    /\ town = <<>>
    /\ events = 0
    /\ InputIdle
    /\ CallIdle
    /\ VpolyIdle
    /\ RelaxIdle
    /\ BisectIdle
    /\ SubIdle

\* the state a frame of handle_mouse_interaction leaves; the event it writes
\* is read by handle_regeneration before the next frame
InputFrame(left, left_button) ==
    /\ pc = "idle"
    /\ regen_events = <<>>
    /\ inputs < MaxInputs
    /\ left.writes => events < MaxEvents
    /\ inputs' = inputs + 1
    /\ LeftButton' = left_button
    /\ IF left.panics
       THEN /\ pc' = "panicked"
            /\ UNCHANGED <<SelectedPoint, DragState, SkeletonData, regen_events>>
       ELSE /\ SelectedPoint' = left.selected_point
            /\ DragState' = left.drag_state
            /\ SkeletonData' = left.skeleton_data
            /\ regen_events' = IF left.writes
                               THEN <<[seed |-> Seed, user_edit |-> TRUE]>>
                               ELSE <<>>
            /\ pc' = pc
    /\ UNCHANGED <<GenerationMode, EditMode, Seed, Params, handled, town, events,
                   callVars, vpolyVars, relaxVars, bisectVars, subVars>>

\* ui/mod.rs lines 51-58: Tab
KeyTab ==
    /\ pc = "idle"
    /\ regen_events = <<>>
    /\ inputs < MaxInputs
    /\ inputs' = inputs + 1
    /\ GenerationMode' = IF GenerationMode = "Auto" THEN "Manual" ELSE "Auto"
    /\ UNCHANGED <<pc, EditMode, Seed, Params, SkeletonData, handled, town, events,
                   SelectedPoint, DragState, LeftButton, regen_events, callVars,
                   vpolyVars, relaxVars, bisectVars, subVars>>

\* the edit mode changed to edit_mode: lines 68-70
EditModeSet(edit_mode) ==
    /\ pc = "idle"
    /\ regen_events = <<>>
    /\ inputs < MaxInputs
    /\ inputs' = inputs + 1
    /\ EditMode' = edit_mode
    /\ SelectedPoint' = <<>>
    /\ DragState' = NotDragging(DragState)
    /\ UNCHANGED <<pc, GenerationMode, Seed, Params, SkeletonData, handled, town, events,
                   LeftButton, regen_events, callVars, vpolyVars, relaxVars, bisectVars,
                   subVars>>

\* lines 61-74: E
KeyE ==
    /\ InEditMode
    /\ EditModeSet(NextEditMode(EditMode))

\* lines 76-89: Q
KeyQ ==
    /\ InEditMode
    /\ EditModeSet(PrevEditMode(EditMode))

\* lines 174-209
KeyDelete ==
    /\ InEditMode
    /\ InputFrame(DeletePressed(SkeletonData, EditMode, SelectedPoint, DragState), LeftButton)

\* lines 212-228
KeyBackspace ==
    /\ InEditMode
    /\ InputFrame(BackspacePressed(SkeletonData, EditMode, SelectedPoint, DragState),
             LeftButton)

\* lines 231-252
RightPress ==
    /\ InEditMode
    /\ \E world_pos \in CursorPositions :
           InputFrame(RightPressed(SkeletonData, EditMode, SelectedPoint, DragState,
                              world_pos), LeftButton)

\* lines 256-277; outside the edit mode the frame returns at line 57
LeftPress ==
    /\ ~LeftButton
    /\ InEditMode => EditMode # "Boundary"
    /\ \E world_pos \in CursorPositions :
           InputFrame(IF InEditMode
                 THEN LeftPressed(SkeletonData, EditMode, SelectedPoint, DragState,
                                  world_pos)
                 ELSE Left(SkeletonData, SelectedPoint, DragState, FALSE), TRUE)

\* lines 278-285
LeftRelease ==
    /\ LeftButton
    /\ InputFrame(IF InEditMode
             THEN LeftReleased(SkeletonData, EditMode, SelectedPoint, DragState)
             ELSE Left(SkeletonData, SelectedPoint, DragState, FALSE), FALSE)

\* lines 286-320
LeftHeld ==
    /\ LeftButton
    /\ InEditMode
    /\ \E world_pos \in CursorPositions :
           InputFrame(LeftHeldAt(SkeletonData, EditMode, SelectedPoint, DragState, world_pos,
                            Params, Seed), TRUE)

\* an event written by the panel (ui/mod.rs lines 134, 162, 300 and 453)
PanelEvent ==
    /\ pc = "idle"
    /\ regen_events = <<>>
    /\ events < MaxEvents
    /\ ~(InEditMode /\ EditMode = "Boundary")
    /\ \E event \in PanelEvents : regen_events' = <<event>>
    /\ UNCHANGED <<pc, townVars, SelectedPoint, DragState, LeftButton, inputs, callVars,
                   vpolyVars, relaxVars, bisectVars, subVars>>

\* handle_regeneration lines 209-367 for the event written, with
\* generate_town run to its end
ReadRegenerateEvent ==
    /\ pc = "idle"
    /\ regen_events # <<>>
    /\ \E data \in {RegeneratedFor(Head(regen_events), SkeletonData)} :
           Handled(Head(regen_events), SkeletonData, data,
                   WholeTown(Head(regen_events).seed, data), "idle")
    /\ regen_events' = Tail(regen_events)
    /\ UNCHANGED <<GenerationMode, EditMode, Params, SelectedPoint, DragState,
                   LeftButton, inputs, callVars, vpolyVars, relaxVars, bisectVars,
                   subVars>>

EditNext ==
    \/ KeyTab
    \/ KeyE
    \/ KeyQ
    \/ KeyDelete
    \/ KeyBackspace
    \/ RightPress
    \/ LeftPress
    \/ LeftRelease
    \/ LeftHeld
    \/ PanelEvent
    \/ ReadRegenerateEvent

SpecEdit == EditInit /\ [][EditNext]_vars

----------------------------------------------------------------------------
(* Statements about handle_regeneration and generate_town *)

\* C11: the buildings of block i are a function of the block's polygon, of
\* Params and of the seed (base seed + i) modulo the width of the seed, i
\* counted from 0, and of nothing else: whatever the other blocks are and
\* whatever was drawn for them, a block of this polygon with this seed gets
\* these footprints
C11_BlockDependsOnItsOwnSeed ==
    town # <<>> =>
        \A i \in 1..Len(town.buildings) :
            town.buildings[i] =
                Footprints(town.regions[i], Params, (town.seed + (i - 1)) % SeedModulus)

\* two blocks are done, one of them cut into plots, and the seeds of the
\* two give different footprints to the polygon of the second
C11_Witness ==
    /\ town # <<>>
    /\ Len(town.buildings) >= 2
    /\ \E i \in 1..Len(town.buildings) : town.buildings[i] # <<town.regions[i]>>
    /\ Footprints(town.regions[2], Params, town.seed)
           # Footprints(town.regions[2], Params, (town.seed + 1) % SeedModulus)

\* C19: in Manual mode an event with user_edit = true leaves
\* generator_points as they were when the edit mode is Generators (the road
\* path and the boundary stay as well; points and cells are computed anew),
\* and leaves generator_points, points and cells as they were when the edit
\* mode is Circumcenters
C19_UserEditKeepsData ==
    (handled # <<>> /\ handled.generation_mode = "Manual" /\ handled.event.user_edit) =>
        /\ handled.edit_mode = "Generators" =>
              /\ SkeletonData.generator_points = handled.before.generator_points
              /\ SkeletonData.road_path = handled.before.road_path
              /\ SkeletonData.boundary_polygon = handled.before.boundary_polygon
        /\ handled.edit_mode = "Circumcenters" =>
              /\ SkeletonData.generator_points = handled.before.generator_points
              /\ SkeletonData.points = handled.before.points
              /\ SkeletonData.cells = handled.before.cells

\* the user's generators were handled in Generators mode: they are kept,
\* and they are not the ones the pipeline would put in their place, while
\* points and cells are new
C19_Witness ==
    /\ handled # <<>>
    /\ handled.generation_mode = "Manual"
    /\ handled.edit_mode = "Generators"
    /\ handled.event.user_edit
    /\ SkeletonData.generator_points = TownGrid
    /\ SkeletonData.points # handled.before.points
    /\ SkeletonData.cells # handled.before.cells

\* the event made handle_regeneration run the whole pipeline (lines 221-248,
\* 254-282 and 292-319)
RanPipeline ==
    /\ handled # <<>>
    /\ \/ handled.generation_mode = "Auto" /\ handled.seed_changed
       \/ /\ handled.generation_mode = "Manual"
          /\ \/ handled.edit_mode = "Roads"
             \/ handled.edit_mode = "Generators" /\ ~handled.event.user_edit

\* the generator cell c was built for is one of the road's
RoadCell(data, c) ==
    data.generator_points[data.cellGen[c]]
        \in Range(generate_road_generators(data.road_path))

\* C20: after handle_regeneration ran the pipeline, the cells that
\* generate_town pushes from the road path, the first road_generator_count
\* ones, are cells of road generators: no cell of a regular or of a boundary
\* generator is pushed
C20_PushedCellsAreRoadCells ==
    RanPipeline =>
        \A c \in 1..PushedCount(SkeletonData) : RoadCell(SkeletonData, c)

\* (what does hold: the same where Params.generator_count is 0, the road
\* generators then being the first generators)
C20_WithoutRegularGenerators ==
    (RanPipeline /\ Params.generator_count = 0) =>
        \A c \in 1..PushedCount(SkeletonData) : RoadCell(SkeletonData, c)

\* C26: in Auto mode an event of the seed in use leaves generator_points,
\* points, cells and boundary_polygon as they were, the town alone being
\* built anew; an event of another seed puts the generators of the pipeline
\* for that seed and their diagram in their place; and after either, Seed
\* is the seed of the event
C26_AutoSameSeedKeepsData ==
    (handled # <<>> /\ handled.generation_mode = "Auto") =>
        /\ Seed = handled.event.seed
        /\ handled.seed = handled.event.seed =>
              /\ SkeletonData.generator_points = handled.before.generator_points
              /\ SkeletonData.points = handled.before.points
              /\ SkeletonData.cells = handled.before.cells
              /\ SkeletonData.boundary_polygon = handled.before.boundary_polygon
        /\ handled.seed # handled.event.seed =>
              SkeletonData =
                  WithVoronoi(handled.before,
                              all_generators(handled.before, Params, handled.event.seed),
                              Params)
        /\ (SkeletonData.points # <<>> /\ pc = "idle") =>
              /\ town # <<>>
              /\ town.seed = handled.event.seed
              /\ Len(town.buildings) = Len(SkeletonData.cells)

\* an event of the seed in use was handled in Auto mode after one of another
\* seed, its town was built, and the generators it left alone are some the
\* pipeline would have replaced with others
C26_Witness ==
    /\ handled # <<>>
    /\ handled.generation_mode = "Auto"
    /\ handled.seed = handled.event.seed
    /\ pc = "idle"
    /\ town # <<>>
    /\ Len(town.buildings) >= 2
    /\ SkeletonData.generator_points
           # all_generators(SkeletonData, Params, handled.event.seed)

----------------------------------------------------------------------------
(* The calls of polygon_area, generate_boundary_generators and             *)
(* generate_road_generators that are checked                               *)

\* greatest number of vertices of a polygon whose area is taken
MaxLen == 4

\* every list of up to MaxLen points with coordinates -1, 0 or 2: all
\* windings, repeated points, collinear points and crossing edges
AreaPolygons ==
    UNION {[1..n -> {-1, 0, 2} \X {-1, 0, 2}] : n \in 0..MaxLen}

AreaCalls == {[fn |-> "polygon_area", polygon |-> q] : q \in AreaPolygons}

\* convex boundaries, in Tenths: a rectangle, a triangle with an edge of
\* 20 m exactly, a quadrilateral with edges shorter than any spacing, and a
\* triangle with a repeated vertex; each in both windings, from every
\* vertex on, and at two places
BoundaryPolygons ==
    LET ps == {<<<<0, 0>>, <<240, 0>>, <<240, 130>>, <<0, 130>>>>,
               <<<<0, 0>>, <<300, 0>>, <<120, 160>>>>,
               <<<<0, 0>>, <<50, 0>>, <<60, 200>>, <<-10, 190>>>>,
               <<<<0, 0>>, <<0, 0>>, <<200, 0>>, <<100, 150>>>>}
        qs == ps \cup {Reversed(q) : q \in ps}
    IN  {Moved(Rotated(q, k), off) :
            q \in qs, k \in 0..3, off \in {<<0, 0>>, <<-70, 35>>}}

\* spacings of 6, 12 and 24 m and inner offsets of 0.5, 1 and 2 m, the ends
\* and the defaults of the sliders (ui/mod.rs lines 384 and 389)
BoundaryCalls ==
    {[fn |-> "generate_boundary_generators", polygon |-> q,
      spacing |-> sp, inner_offset |-> io] :
        q \in BoundaryPolygons, sp \in {60, 120, 240}, io \in {5, 10, 20}}

\* greatest number of points of a road path
MaxRoad == 3

\* road paths, in Tenths: every list of up to MaxRoad of these points, which
\* lie 0.5, 1, 3, 4, 5 and 10 m and more apart
RoadPoints == {<<0, 0>>, <<10, 0>>, <<40, 0>>, <<40, 30>>, <<43, 34>>, <<140, 30>>}

RoadCalls ==
    {[fn |-> "generate_road_generators", road_path |-> q] :
        q \in UNION {[1..n -> RoadPoints] : n \in 0..MaxRoad}}

GeomCalls == AreaCalls \cup BoundaryCalls \cup RoadCalls

GeomInit ==
    /\ pc = "call"
    /\ fIn \in GeomCalls
    /\ fOut = <<>>
    /\ VpolyIdle
    /\ RelaxIdle
    /\ BisectIdle
    /\ SubIdle
    /\ TownIdle
    /\ InputIdle

\* polygon_area is called on the list, on each of its rotations and on its
\* reversal
AreaCall ==
    /\ pc = "call"
    /\ fIn.fn = "polygon_area"
    /\ fOut' = [area2 |-> polygon_area2(fIn.polygon),
                rotated |-> [k \in 1..Len(fIn.polygon) |->
                                polygon_area2(Rotated(fIn.polygon, k))],
                reversed |-> polygon_area2(Reversed(fIn.polygon))]
    /\ pc' = "returned"
    /\ UNCHANGED <<fIn, vpolyVars, relaxVars, bisectVars, subVars, townVars, inputVars>>

\* one call of generate_boundary_generators on a boundary that is not empty
BoundaryGeneratorsCall ==
    /\ pc = "call"
    /\ fIn.fn = "generate_boundary_generators"
    /\ ~BoundaryGeneratorsPanics(fIn.polygon)
    /\ fOut' = generate_boundary_generators(fIn.polygon, fIn.spacing, fIn.inner_offset)
    /\ pc' = "returned"
    /\ UNCHANGED <<fIn, vpolyVars, relaxVars, bisectVars, subVars, townVars, inputVars>>

\* one call of generate_road_generators; what each segment contributed is
\* kept beside the list returned
RoadGeneratorsCall ==
    /\ pc = "call"
    /\ fIn.fn = "generate_road_generators"
    /\ fOut' = [generators |-> generate_road_generators(fIn.road_path),
                of_segment |-> [i \in 1..(Len(fIn.road_path) - 1) |->
                                   SegmentGenerators(fIn.road_path, i)]]
    /\ pc' = "returned"
    /\ UNCHANGED <<fIn, vpolyVars, relaxVars, bisectVars, subVars, townVars, inputVars>>

GeomNext == AreaCall \/ BoundaryGeneratorsCall \/ RoadGeneratorsCall

SpecGeom == GeomInit /\ [][GeomNext]_vars

----------------------------------------------------------------------------
(* Statements about polygon_area and the constraint generators *)

\* C24: polygon_area gives the same value for every cyclic rotation of the
\* vertex list, the negated value for the reversed list, and 0 for a list
\* of fewer than 3 vertices
C24_AreaRotationReversal ==
    (pc = "returned" /\ fIn.fn = "polygon_area") =>
        /\ \A k \in 1..Len(fIn.polygon) : fOut.rotated[k] = fOut.area2
        /\ fOut.reversed = -fOut.area2
        /\ Len(fIn.polygon) < 3 => fOut.area2 = 0

\* a list of MaxLen vertices of nonzero area that is neither its own
\* reversal nor one of its own proper rotations
C24_Witness ==
    /\ pc = "returned"
    /\ fIn.fn = "polygon_area"
    /\ Len(fIn.polygon) >= 4
    /\ fOut.area2 > 0
    /\ fOut.reversed < 0
    /\ \A k \in 1..(Len(fIn.polygon) - 1) : Rotated(fIn.polygon, k) # fIn.polygon


\* the number of pairs the edge from polygon[i] to its successor is to get:
\* none for an edge of length 0, else max(1, floor(edge_length / spacing))
PairsOfEdge(polygon, i, spacing) ==
    LET len2 == Dist2(polygon[i], polygon[Succ(polygon, i)])
    IN  IF len2 = 0 THEN 0
        ELSE IF Sq(spacing) > len2 THEN 1
        ELSE CHOOSE k \in 1..len2 : Sq(k * spacing) <= len2 /\ Sq((k + 1) * spacing) > len2

\* the number of points emitted for the edges before edge i
RECURSIVE PointsBefore(_, _, _)
PointsBefore(polygon, i, spacing) ==
    IF i = 1 THEN 0
    ELSE PointsBefore(polygon, i - 1, spacing) + 2 * PairsOfEdge(polygon, i - 1, spacing)

\* point pt lies over the middle of the j-th of num equal parts of the edge
\* from start to end, as nearly as a point of the lattice can (each
\* coordinate is off by at most one unit)
OverMidpoint(pt, start, end, j, num) ==
    LET e == Sub(end, start)
        len2 == Dot(e, e)
    IN  Sq(2 * num * Dot(Sub(pt, start), e) - (2 * j - 1) * len2) <= 8 * Sq(num) * len2

\* C22: generate_boundary_generators gives every edge of nonzero length of a
\* convex boundary, in either winding, max(1, floor(edge_length / spacing))
\* pairs, in edge order; the first point of the j-th pair lies over the
\* middle of the j-th equal part of the edge on the side of the polygon, the
\* second over the same middle on the other side
C22_BoundaryPairs ==
    (pc = "returned" /\ fIn.fn = "generate_boundary_generators") =>
        LET polygon == fIn.polygon
            n == Len(polygon)
            interior == IF polygon_area2(polygon) > 0 THEN 1 ELSE -1
        IN  /\ Len(fOut) = PointsBefore(polygon, n + 1, fIn.spacing)
            /\ \A i \in 1..n :
                 LET start == polygon[i]
                     end == polygon[Succ(polygon, i)]
                     num == PairsOfEdge(polygon, i, fIn.spacing)
                     at == PointsBefore(polygon, i, fIn.spacing)
                 IN  \A j \in 1..num :
                       LET inner == fOut[at + 2 * j - 1]
                           outer == fOut[at + 2 * j]
                       IN  /\ OverMidpoint(inner, start, end, j, num)
                           /\ OverMidpoint(outer, start, end, j, num)
                           /\ interior * Cross(Sub(end, start), Sub(inner, start)) > 0
                           /\ interior * Cross(Sub(end, start), Sub(outer, start)) < 0

\* a clockwise boundary with an edge that gets one pair though it is shorter
\* than the spacing and an edge that gets several pairs
C22_Witness ==
    /\ pc = "returned"
    /\ fIn.fn = "generate_boundary_generators"
    /\ polygon_area2(fIn.polygon) < 0
    /\ \E i \in 1..Len(fIn.polygon) :
         /\ PairsOfEdge(fIn.polygon, i, fIn.spacing) = 1
         /\ Dist2(fIn.polygon[i], fIn.polygon[Succ(fIn.polygon, i)]) < Sq(fIn.spacing)
    /\ \E i \in 1..Len(fIn.polygon) : PairsOfEdge(fIn.polygon, i, fIn.spacing) >= 3
    /\ Len(fOut) >= 10


\* segment i of the path is shorter than CORNER_CONSTRAINT_DISTANCE
ShorterThanMargin(road_path, i) ==
    Dist2(road_path[i], road_path[i + 1]) < Sq(CORNER_CONSTRAINT_DISTANCE * Tenths)

\* the list returned is empty for a path of fewer than 2 points, and has an
\* even number of points
EmptyOrEven ==
    /\ Len(fIn.road_path) < 2 => fOut.generators = <<>>
    /\ Len(fOut.generators) % 2 = 0

\* C23 as stated: in generate_road_generators a segment shorter than
\* CORNER_CONSTRAINT_DISTANCE contributes no generators, whatever the number
\* of points of the path; a path of fewer than 2 points gives the empty
\* list, and the list always has an even number of points
C23_ShortSegmentsAnyPath ==
    (pc = "returned" /\ fIn.fn = "generate_road_generators") =>
        /\ \A i \in 1..(Len(fIn.road_path) - 1) :
              ShorterThanMargin(fIn.road_path, i) => fOut.of_segment[i] = <<>>
        /\ EmptyOrEven

\* C23 as it holds: a segment shorter than CORNER_CONSTRAINT_DISTANCE
\* contributes no generators where the path has 3 points or more, every
\* segment then having a corner at an end; the one segment of a path of 2
\* points contributes pairs whenever it is longer than 0.1; a path of fewer
\* than 2 points gives the empty list, and the list always has an even
\* number of points
C23_ShortSegmentsAtCorners ==
    (pc = "returned" /\ fIn.fn = "generate_road_generators") =>
        /\ Len(fIn.road_path) >= 3 =>
              \A i \in 1..(Len(fIn.road_path) - 1) :
                ShorterThanMargin(fIn.road_path, i) => fOut.of_segment[i] = <<>>
        /\ Len(fIn.road_path) = 2 =>
              (fOut.of_segment[1] # <<>>
                  <=> Dist2(fIn.road_path[1], fIn.road_path[2]) > Sq(1))
        /\ EmptyOrEven

\* a path of 3 points whose first segment is shorter than the margin and
\* whose second segment contributed pairs
C23_Witness ==
    /\ pc = "returned"
    /\ fIn.fn = "generate_road_generators"
    /\ Len(fIn.road_path) = 3
    /\ fIn.road_path[1] # fIn.road_path[2]
    /\ ShorterThanMargin(fIn.road_path, 1)
    /\ fOut.of_segment[1] = <<>>
    /\ Len(fOut.of_segment[2]) >= 4


----------------------------------------------------------------------------
(* Statements about the winding of the polygons that are cut *)

\* the call of bisect_poly on the reversed polygon that asks for the same
\* cut: the same edge, which now runs the other way, cut at the same point
ReversedCall(call) ==
    LET n == Len(call.polygon)
    IN  [call EXCEPT !.polygon = Reversed(call.polygon),
                     !.start_idx = IF call.start_idx = n THEN n ELSE n - call.start_idx,
                     !.ratio = RatioDen - call.ratio]

\* the lists a and b are the same ring of vertices
SameRing(a, b) ==
    /\ Len(a) = Len(b)
    /\ \E k \in 0..Len(a) : Rotated(a, k) = b

\* C21: where bisect_poly splits a polygon it splits the reversed polygon
\* too, into the reversed halves, and a polygon that subdivide_to_plots
\* does not find too small for min_sq is not found too small when reversed
C21_SplitsEitherWinding ==
    (pc = "bisected" /\ Len(bIn.polygon) >= 3 /\ bIn.start_idx <= Len(bIn.polygon)
        /\ bOut.result # <<bIn.polygon>>) =>
        LET mirror == ReversedCall(bIn)
            halves == bisect_poly(mirror.polygon, mirror.start_idx, mirror.ratio,
                                  mirror.angle, mirror.separation)
        IN  /\ Len(halves) = Len(bOut.result)
            /\ \A h \in 1..Len(halves) :
                  \E g \in 1..Len(bOut.result) :
                    SameRing(halves[h], Reversed(bOut.result[g]))
            /\ \A min_sq \in {1, 8} :
                  ~TooSmall(bIn.polygon, min_sq) => ~TooSmall(mirror.polygon, min_sq)

----------------------------------------------------------------------------
(* Statements about a cut of which one half is left *)

\* C29: subdivide_to_plots takes a cut as failed, and returns its polygon
\* as a final plot, only when bisect_poly returned that polygon; where
\* bisect_poly returned anything else, be it a single half, the call goes on
\* with what was returned
C29_FailedOnlyOnInputPolygon ==
    (sCut # <<>> /\ sCut.failed) => sCut.halves = <<sCut.polygon>>

\* (what does hold: a cut is taken as failed only when bisect_poly returned
\* a single polygon of as many vertices as the polygon cut)
C29_FailedOnSameLength ==
    (sCut # <<>> /\ sCut.failed) =>
        /\ Len(sCut.halves) = 1
        /\ Len(sCut.halves[1]) = Len(sCut.polygon)


----------------------------------------------------------------------------
(* Statements about the indices handle_mouse_interaction and generate_town *)
(* use                                                                     *)

\* C27: whatever the keys, the clicks, the drags and the events before,
\* when handle_mouse_interaction removes or overwrites the element at
\* selected_point or at dragging_point_index the index is within the list
\* of the edit mode: no frame panics on an index that a regeneration left
\* behind
C27_NoStaleIndex == pc # "panicked"

\* the indices the cells of data hold are positions of data.points
CellsWithinPoints(data) ==
    \A c \in 1..Len(data.cells) :
        \A k \in 1..Len(data.cells[c]) : data.cells[c][k] \in 1..Len(data.points)

============================================================================
